---------------------------- MODULE Spec2Model ----------------------------
(***************************************************************************)
(* A model of the saturn storage engine: the CRC32C and framing layer of   *)
(* the write-ahead log (crc.rs, wal_format.rs, wal_writer.rs,              *)
(* wal_reader.rs), the entry codec and the log facade (wal.rs), the        *)
(* memtable (memtable.rs), the Bloom filter and the SSTable                *)
(* (bloom_filter.rs, sstable.rs) and the engine (saturndb.rs).             *)
(*                                                                         *)
(* Bytes are the integers 0..255 and a file or a buffer is a sequence of   *)
(* bytes.  A u32 is kept as the pair <<hi, lo>> of its 16-bit halves, so   *)
(* that its arithmetic wraps at 2^32 exactly as in the source.             *)
(***************************************************************************)
EXTENDS Integers, Sequences, FiniteSets, TLC

(***************************************************************************)
(* Helpers on byte sequences.                                              *)
(***************************************************************************)
Min(a, b) == IF a < b THEN a ELSE b

\* a.saturating_sub(b) on usize / u64
SatSub(a, b) == IF a >= b THEN a - b ELSE 0

\* the slice s[from..to] of Rust (0-based, `to` excluded)
Slice(s, from, to) == SubSeq(s, from + 1, to)

\* n zero bytes: vec![0u8; n]
Zeros(n) == [i \in 1..n |-> 0]

\* Write::write_all on a File whose cursor is at byte `pos`: the bytes replace
\* what the file holds from `pos` on and extend it when they reach past its end.
WriteAt(file, pos, bytes) ==
    LET end == pos + Len(bytes)
        n   == IF end > Len(file) THEN end ELSE Len(file)
    IN  [i \in 1..n |->
            IF i > pos /\ i <= end THEN bytes[i - pos]
            ELSE IF i <= Len(file) THEN file[i]
            ELSE 0]

(***************************************************************************)
(* 32-bit words as <<hi, lo>>, and the bit operations the CRC needs.       *)
(***************************************************************************)
RECURSIVE BitXor(_, _)
BitXor(a, b) ==
    IF a = 0 THEN b
    ELSE IF b = 0 THEN a
    ELSE ((a + b) % 2) + 2 * BitXor(a \div 2, b \div 2)

\* a ^ b on bytes, tabulated once
XorTable == [a \in 0..255 |-> [b \in 0..255 |-> BitXor(a, b)]]

\* a ^ b on 16-bit halves
Xor16(a, b) == XorTable[a \div 256][b \div 256] * 256 + XorTable[a % 256][b % 256]

Xor32(x, y) == <<Xor16(x[1], y[1]), Xor16(x[2], y[2])>>

\* x >> 1
Shr1(x) == <<x[1] \div 2, (x[2] \div 2) + (x[1] % 2) * 32768>>

\* a.wrapping_add(b)
Add32(x, y) ==
    LET lo == x[2] + y[2]
    IN  <<(x[1] + y[1] + lo \div 65536) % 65536, lo % 65536>>

\* a.wrapping_sub(b)
Sub32(x, y) ==
    LET borrow == IF x[2] < y[2] THEN 1 ELSE 0
    IN  <<(x[1] - y[1] - borrow + 65536) % 65536, (x[2] - y[2] + 65536) % 65536>>

\* (x >> 15) | (x << 17)
RotR15(x) ==
    <<(x[2] % 32768) * 2 + x[1] \div 32768, (x[1] % 32768) * 2 + x[2] \div 32768>>

\* (x << 15) | (x >> 17)
RotL15(x) ==
    <<(x[1] % 2) * 32768 + x[2] \div 2, (x[2] % 2) * 32768 + x[1] \div 2>>

AllOnes32 == <<65535, 65535>>

(***************************************************************************)
(* crc.rs: CRC32C (Castagnoli), reflected, bit by bit.                     *)
(***************************************************************************)
\* 0x82F6_3B78
POLY_REFLECTED == <<33526, 15224>>

\* 0xA282_EAD8
MASK_DELTA == <<41602, 60120>>

\* one pass of `for _ in 0..8`: mask = (crc & 1).wrapping_neg() & POLY; crc = (crc >> 1) ^ mask
CrcRound(crc) ==
    IF crc[2] % 2 = 1 THEN Xor32(Shr1(crc), POLY_REFLECTED) ELSE Shr1(crc)

RECURSIVE CrcRounds(_, _)
CrcRounds(crc, n) ==
    IF n = 0 THEN crc
    ELSE LET c == CrcRound(crc)
         IN  IF c[2] >= 0 THEN CrcRounds(c, n - 1) ELSE c

\* x >> 8
Shr8(x) == <<x[1] \div 256, (x[2] \div 256) + (x[1] % 256) * 256>>

\* the eight rounds applied to each value of the low byte, the upper 24 bits
\* being zero, tabulated once
ByteRounds == [x \in 0..255 |-> CrcRounds(<<0, x>>, 8)]

\* update_byte: crc ^= b, then the eight rounds.  A round is linear over ^
\* and only the bit shifted out picks the polynomial, so the eight rounds of
\* crc are (crc >> 8) ^ (the eight rounds of its low byte).
update_byte(crc, b) ==
    Xor32(Shr8(crc), ByteRounds[XorTable[crc[2] % 256][b]])

\* `for &b in data { crc = update_byte(crc, b) }` over data[lo..hi], the
\* bytes taken in order: the first half, then the second
RECURSIVE CrcSpan(_, _, _, _)
CrcSpan(crc, data, lo, hi) ==
    IF lo > hi THEN crc
    ELSE IF lo = hi THEN update_byte(crc, data[lo])
    ELSE LET mid == (lo + hi) \div 2
             c   == CrcSpan(crc, data, lo, mid)
         IN  IF c[2] >= 0 THEN CrcSpan(c, data, mid + 1, hi) ELSE c

CrcFold(crc, data, i) == CrcSpan(crc, data, i, Len(data))

crc32c_value(data) == Xor32(CrcFold(AllOnes32, data, 1), AllOnes32)

crc32c_extend(initial_crc, data) ==
    Xor32(CrcFold(Xor32(initial_crc, AllOnes32), data, 1), AllOnes32)

crc32c_mask(crc) == Add32(RotR15(crc), MASK_DELTA)

\* unmask rotating by 16 bits, the halves exchanged, instead of by 15
crc32c_unmask_by_halves(masked) ==
    LET rot == Sub32(masked, MASK_DELTA) IN <<rot[2], rot[1]>>

crc32c_unmask(masked) == RotL15(Sub32(masked, MASK_DELTA))

get_fixed32_le(src4) == <<src4[3] + src4[4] * 256, src4[1] + src4[2] * 256>>

put_fixed32_le(v) == <<v[2] % 256, v[2] \div 256, v[1] % 256, v[1] \div 256>>

(***************************************************************************)
(* Bounds of the model.                                                    *)
(***************************************************************************)
\* the byte strings used as keys and as values
Keys == {<<1>>, <<2>>}
Values == {<<7>>, <<8>>}

\* MemTable::is_full compares with the literal 1000; the model keeps the
\* comparison and uses a threshold its few keys can reach (a key can sit in
\* both maps, so two keys give up to four entries).
FlushThreshold == 3

\* SSTables a run pushes on the stack
MaxSSTables == 2

\* logical records written to a log stream on its own
MaxRecords == 3

\* the entries appended to a log on its own
MaxAppends == 3

\* the calls of the client in the runs where two threads flush
MaxConcOps == 2

\* calls of put/delete/get/recover/flush over a whole run, engine restarts,
\* and injected I/O failures
MaxOps == 4
MaxRestarts == 2
MaxFaults == 1


(***************************************************************************)
(* wal.rs: the entry codec.  An Entry is [tag |-> "Put", key, value] or    *)
(* [tag |-> "Delete", key].                                                *)
(***************************************************************************)
PUT_TAG == 0
DELETE_TAG == 1

PutEntry(k, v) == [tag |-> "Put", key |-> k, value |-> v]
DeleteEntry(k) == [tag |-> "Delete", key |-> k]

\* (n as u32).to_be_bytes(), for the lengths the model reaches (n < 2^24)
U32BE(n) == <<0, (n \div 65536) % 256, (n \div 256) % 256, n % 256>>

write_len_prefixed(bytes) == U32BE(Len(bytes)) \o bytes

encode_entry(e) ==
    IF e.tag = "Put"
    THEN <<PUT_TAG>> \o write_len_prefixed(e.key) \o write_len_prefixed(e.value)
    ELSE <<DELETE_TAG>> \o write_len_prefixed(e.key)

\* a read_len_prefixed that would refuse a field of length 0
read_len_prefixed_nonempty(src, offset) ==
    IF SatSub(Len(src), offset) < 4
    THEN [ok |-> FALSE, err |-> "missing length"]
    ELSE LET len == src[offset + 2] * 65536 + src[offset + 3] * 256 + src[offset + 4]
             o   == offset + 4
         IN  IF src[offset + 1] # 0 \/ len = 0 \/ SatSub(Len(src), o) < len
             THEN [ok |-> FALSE, err |-> "payload truncated"]
             ELSE [ok |-> TRUE, out |-> Slice(src, o, o + len), offset |-> o + len]

\* read_len_prefixed(src, &mut offset): [ok, out, offset] or [ok |-> FALSE, err]
read_len_prefixed(src, offset) ==
    IF SatSub(Len(src), offset) < 4
    THEN [ok |-> FALSE, err |-> "missing length"]
    ELSE IF src[offset + 1] # 0
    THEN \* a length of 2^24 or more is longer than any buffer of the model
         [ok |-> FALSE, err |-> "payload truncated"]
    ELSE LET len == src[offset + 2] * 65536 + src[offset + 3] * 256 + src[offset + 4]
             o   == offset + 4
         IN  IF SatSub(Len(src), o) < len
             THEN [ok |-> FALSE, err |-> "payload truncated"]
             ELSE [ok |-> TRUE, out |-> Slice(src, o, o + len), offset |-> o + len]

\* decode_entry(src): [ok |-> TRUE, entry] or [ok |-> FALSE, err]
decode_entry(src) ==
    IF src = <<>> THEN [ok |-> FALSE, err |-> "empty WAL record"]
    ELSE LET tag == src[1]
             key == read_len_prefixed(src, 1)
         IN  IF ~key.ok THEN [ok |-> FALSE, err |-> key.err]
             ELSE IF tag = PUT_TAG
             THEN LET value == read_len_prefixed(src, key.offset)
                  IN  IF ~value.ok THEN [ok |-> FALSE, err |-> value.err]
                      ELSE [ok |-> TRUE, entry |-> PutEntry(key.out, value.out)]
             ELSE IF tag = DELETE_TAG
             THEN [ok |-> TRUE, entry |-> DeleteEntry(key.out)]
             ELSE [ok |-> FALSE, err |-> "unknown WAL tag"]


(***************************************************************************)
(* wal_format.rs                                                           *)
(***************************************************************************)
\* BLOCK_SIZE is 32 * 1024 in the source.  The model keeps every computation
\* on it and uses a block its records can fill and cross: large enough for
\* the 7-byte header and for the few records of the engine's runs to stay in
\* one block, small enough for payloads of one, two and three blocks.
BLOCK_SIZE == 96
HEADER_SIZE == 7

RT_Zero == 0
RT_Full == 1
RT_First == 2
RT_Middle == 3
RT_Last == 4


(***************************************************************************)
(* wal_writer.rs: Writer.  A writer is the record                          *)
(*   [dest |-> the bytes of the stream, pos |-> the cursor of `dest`,      *)
(*    block_offset |-> Writer::block_offset].                              *)
(***************************************************************************)
\* Writer::new: an empty stream, block_offset 0
Writer_new == [dest |-> <<>>, pos |-> 0, block_offset |-> 0]

\* Writer::with_starting_offset(dest, existing_len): only block_offset is
\* derived from existing_len; the cursor of `dest` is left where it is.
Writer_with_starting_offset(dest, pos, existing_len) ==
    [dest |-> dest, pos |-> pos, block_offset |-> existing_len % BLOCK_SIZE]

\* self.dest.write_all(bytes)
write_all(w, bytes) ==
    [w EXCEPT !.dest = WriteAt(w.dest, w.pos, bytes), !.pos = w.pos + Len(bytes)]

\* Writer::type_crc: the CRC of each record type's byte, computed once in
\* Writer::new
type_crc == [t \in RT_Zero..RT_Last |-> crc32c_value(<<t>>)]

\* the payloads the engine frames: the encodings of its entries
EnginePayloads ==
    {encode_entry(PutEntry(k, v)) : k \in Keys, v \in Values}
        \cup {encode_entry(DeleteEntry(k)) : k \in Keys}

\* crc32c::extend(type_crc[Full], payload), tabulated over the engine's payloads
FullRecordCrc == [p \in EnginePayloads |-> crc32c_extend(type_crc[RT_Full], p)]

\* a checksum that would cover the type byte only
RecordCrc_type_only(t, payload) == crc32c_value(<<t>>)

\* crc32c::extend(type_crc[t], payload): read from the table where it has
\* the argument, computed otherwise
RecordCrc(t, payload) ==
    IF t = RT_Full /\ payload \in EnginePayloads
    THEN FullRecordCrc[payload]
    ELSE crc32c_extend(IF t \in DOMAIN type_crc THEN type_crc[t] ELSE crc32c_value(<<t>>),
                       payload)

\* the 7-byte header emit_physical_record builds
PhysicalHeader(t, payload) ==
    LET n   == Len(payload)
        crc == RecordCrc(t, payload)
    IN  put_fixed32_le(crc32c_mask(crc)) \o <<n % 256, (n \div 256) % 256, t>>

emit_physical_record(w, t, payload) ==
    LET w1 == write_all(w, PhysicalHeader(t, payload))
        w2 == write_all(w1, payload)
    IN  [w2 EXCEPT !.block_offset = w.block_offset + HEADER_SIZE + Len(payload)]

\* a trailer step that would start the next block without writing the zeros
PadTrailer_without_zeros(w) ==
    LET leftover == BLOCK_SIZE - w.block_offset
    IN  IF leftover < HEADER_SIZE THEN [w EXCEPT !.block_offset = 0] ELSE w

\* the trailer step at the top of the loop of add_record
PadTrailer(w) ==
    LET leftover == BLOCK_SIZE - w.block_offset
    IN  IF leftover < HEADER_SIZE
        THEN [(IF leftover > 0 THEN write_all(w, Zeros(leftover)) ELSE w)
                  EXCEPT !.block_offset = 0]
        ELSE w

\* a writer that would mark the closing fragment of a record as Full
FragmentType_last_as_full(begin, end) ==
    IF end THEN RT_Full
    ELSE IF begin THEN RT_First
    ELSE RT_Middle

\* the record type add_record picks from (begin, end)
FragmentType(begin, end) ==
    IF begin /\ end THEN RT_Full
    ELSE IF begin THEN RT_First
    ELSE IF end THEN RT_Last
    ELSE RT_Middle

\* a loop of add_record that would never clear `begin`
RECURSIVE AddRecordLoop_begin_stays(_, _, _)
AddRecordLoop_begin_stays(w, data, begin) ==
    LET w1       == PadTrailer(w)
        avail    == BLOCK_SIZE - w1.block_offset - HEADER_SIZE
        frag_len == Min(Len(data), avail)
        end      == frag_len = Len(data)
        w2       == emit_physical_record(w1, FragmentType(begin, end),
                                         Slice(data, 0, frag_len))
        rest     == Slice(data, frag_len, Len(data))
    IN  IF rest = <<>> THEN w2 ELSE AddRecordLoop_begin_stays(w2, rest, begin)

\* a loop of add_record that would take the whole rest of the block as the
\* space of a fragment, the header not counted
RECURSIVE AddRecordLoop_avail_ignores_header(_, _, _)
AddRecordLoop_avail_ignores_header(w, data, begin) ==
    LET w1       == PadTrailer(w)
        avail    == BLOCK_SIZE - w1.block_offset
        frag_len == Min(Len(data), avail)
        end      == frag_len = Len(data)
        w2       == emit_physical_record(w1, FragmentType(begin, end),
                                         Slice(data, 0, frag_len))
        rest     == Slice(data, frag_len, Len(data))
    IN  IF rest = <<>> THEN w2 ELSE AddRecordLoop_avail_ignores_header(w2, rest, FALSE)

RECURSIVE AddRecordLoop(_, _, _)
AddRecordLoop(w, data, begin) ==
    LET w1       == PadTrailer(w)
        avail    == BLOCK_SIZE - w1.block_offset - HEADER_SIZE
        frag_len == Min(Len(data), avail)
        end      == frag_len = Len(data)
        w2       == emit_physical_record(w1, FragmentType(begin, end),
                                         Slice(data, 0, frag_len))
        rest     == Slice(data, frag_len, Len(data))
    IN  IF rest = <<>> THEN w2 ELSE AddRecordLoop(w2, rest, FALSE)

add_record(w, data) == AddRecordLoop(w, data, TRUE)

(***************************************************************************)
(* wal_reader.rs: Reader.  A reader is a record holding the source bytes   *)
(* and the read position in them (src, srcpos), Buf (bufdata, bufpos), the *)
(* fields of Reader, and `drops`, what the reporter has been handed.       *)
(***************************************************************************)
\* a reader that would never start in resynchronising mode
Reader_new_not_resyncing(src, reporter, checksum, initial_offset) ==
    [src |-> src, srcpos |-> 0, reporter |-> reporter, checksum |-> checksum,
     bufdata |-> <<>>, bufpos |-> 0, eof |-> FALSE,
     last_record_offset |-> 0, end_of_buffer_offset |-> 0,
     initial_offset |-> initial_offset, resyncing |-> FALSE,
     drops |-> <<>>]

\* Reader::new
Reader_new(src, reporter, checksum, initial_offset) ==
    [src |-> src, srcpos |-> 0, reporter |-> reporter, checksum |-> checksum,
     bufdata |-> <<>>, bufpos |-> 0, eof |-> FALSE,
     last_record_offset |-> 0, end_of_buffer_offset |-> 0,
     initial_offset |-> initial_offset, resyncing |-> initial_offset > 0,
     drops |-> <<>>]

Buf_size(r) == SatSub(Len(r.bufdata), r.bufpos)

Buf_as_slice(r) == Slice(r.bufdata, r.bufpos, Len(r.bufdata))

Buf_clear(r) == [r EXCEPT !.bufdata = <<>>, !.bufpos = 0]

Buf_remove_prefix(r, n) ==
    IF r.bufpos + n >= Len(r.bufdata) THEN Buf_clear(r)
    ELSE [r EXCEPT !.bufpos = r.bufpos + n]

\* a report that would reach the reporter wherever the dropped bytes lie
report_everywhere(r, bytes, reason) ==
    IF r.reporter
    THEN [r EXCEPT !.drops = Append(r.drops, <<bytes, reason>>)]
    ELSE r

\* Reader::report: the reporter is called only when the dropped bytes lie at
\* or past initial_offset
report(r, bytes, reason) ==
    IF r.reporter
       /\ SatSub(SatSub(r.end_of_buffer_offset, Buf_size(r)), bytes) >= r.initial_offset
    THEN [r EXCEPT !.drops = Append(r.drops, <<bytes, reason>>)]
    ELSE r

\* a refill that would take only an empty read as the end of the file
Refill_eof_on_empty(r) ==
    LET n == Min(BLOCK_SIZE, SatSub(Len(r.src), r.srcpos))
    IN  [r EXCEPT !.bufdata = Slice(r.src, r.srcpos, r.srcpos + n),
                  !.bufpos = 0,
                  !.srcpos = r.srcpos + n,
                  !.end_of_buffer_offset = r.end_of_buffer_offset + n,
                  !.eof = (n = 0)]

\* self.src.read(&mut self.backing) followed by buf.reset_to(&backing[..n])
Refill(r) ==
    LET n == Min(BLOCK_SIZE, SatSub(Len(r.src), r.srcpos))
    IN  [r EXCEPT !.bufdata = Slice(r.src, r.srcpos, r.srcpos + n),
                  !.bufpos = 0,
                  !.srcpos = r.srcpos + n,
                  !.end_of_buffer_offset = r.end_of_buffer_offset + n,
                  !.eof = (n < BLOCK_SIZE)]

\* Reader::skip_to_initial_block
skip_to_initial_block(r) ==
    LET off_in_block == r.initial_offset % BLOCK_SIZE
        start0       == r.initial_offset - off_in_block
        block_start  == IF off_in_block > BLOCK_SIZE - 6 THEN start0 + BLOCK_SIZE
                        ELSE start0
    IN  [r EXCEPT !.end_of_buffer_offset = block_start,
                  !.srcpos = IF block_start > 0 THEN r.srcpos + block_start
                             ELSE r.srcpos]

\* Reader::read_physical_record: [r |-> the reader after the call,
\*   kind |-> "Eof" | "Bad" | "Rec", typ, data, physical_offset]
RECURSIVE read_physical_record(_)
read_physical_record(r) ==
    IF Buf_size(r) < HEADER_SIZE
    THEN IF ~r.eof THEN read_physical_record(Refill(r))
         ELSE [r |-> Buf_clear(r), kind |-> "Eof"]
    ELSE
    LET header == Slice(Buf_as_slice(r), 0, HEADER_SIZE)
        typ    == header[7]
        len    == header[5] + header[6] * 256
    IN  IF HEADER_SIZE + len > Buf_size(r)
        THEN LET drop_sz == Buf_size(r)
             IN  IF ~r.eof
                 THEN [r |-> report(Buf_clear(r), drop_sz, "bad record length"),
                       kind |-> "Bad"]
                 ELSE [r |-> Buf_clear(r), kind |-> "Eof"]
        ELSE IF typ = RT_Zero /\ len = 0
        THEN [r |-> Buf_clear(r), kind |-> "Bad"]
        ELSE
        LET payload  == Slice(Buf_as_slice(r), HEADER_SIZE, HEADER_SIZE + len)
            expected == crc32c_unmask(get_fixed32_le(Slice(header, 0, 4)))
            actual   == RecordCrc(typ, payload)
        IN  IF r.checksum /\ actual # expected
            THEN [r |-> report(Buf_clear(r), Buf_size(r), "checksum mismatch"),
                  kind |-> "Bad"]
            ELSE
            LET r1         == Buf_remove_prefix(r, HEADER_SIZE + len)
                remaining  == Buf_size(r1)
                started_at == r1.end_of_buffer_offset - remaining - HEADER_SIZE - len
            IN  IF started_at < r1.initial_offset
                THEN [r |-> r1, kind |-> "Bad"]
                ELSE [r |-> r1, kind |-> "Rec", typ |-> typ, data |-> payload,
                      physical_offset |-> started_at]

\* the loop of Reader::read_record, with its locals scratch and in_frag
\* (prospective_offset is po): [r, ok, out].  ReadRecordLoop reads one
\* physical record and ReadRecordMatch is the match on it.
RECURSIVE ReadRecordLoop(_, _, _, _)

\* a turn of the loop that would take a Last met outside a fragmented record
\* as a whole record
ReadRecordMatch_last_alone(p, scratch, in_frag, po) ==
        IF p.kind = "Eof" THEN [r |-> p.r, ok |-> FALSE, out |-> <<>>]
        ELSE IF p.kind = "Bad"
        THEN IF in_frag
             THEN ReadRecordLoop(report(p.r, Len(scratch), "error in middle of record"),
                                 <<>>, FALSE, po)
             ELSE ReadRecordLoop(p.r, scratch, in_frag, po)
        ELSE IF p.r.resyncing /\ p.typ = RT_Middle
        THEN ReadRecordLoop(p.r, scratch, in_frag, po)
        ELSE IF p.r.resyncing /\ p.typ = RT_Last
        THEN ReadRecordLoop([p.r EXCEPT !.resyncing = FALSE], scratch, in_frag, po)
        ELSE
        LET r1 == [p.r EXCEPT !.resyncing = FALSE]
        IN  IF p.typ = RT_Full
            THEN LET r2 == IF in_frag /\ scratch # <<>>
                           THEN report(r1, Len(scratch), "partial record without end(1)")
                           ELSE r1
                 IN  [r |-> [r2 EXCEPT !.last_record_offset = p.physical_offset],
                      ok |-> TRUE, out |-> p.data]
            ELSE IF p.typ = RT_First
            THEN LET r2 == IF in_frag /\ scratch # <<>>
                           THEN report(r1, Len(scratch), "partial record without end(2)")
                           ELSE r1
                 IN  ReadRecordLoop(r2, p.data, TRUE, p.physical_offset)
            ELSE IF p.typ = RT_Middle
            THEN IF ~in_frag
                 THEN ReadRecordLoop(
                          report(r1, Len(p.data), "missing start of fragmented record(1)"),
                          scratch, in_frag, po)
                 ELSE ReadRecordLoop(r1, scratch \o p.data, in_frag, po)
            ELSE IF p.typ = RT_Last
            THEN [r |-> [r1 EXCEPT !.last_record_offset = po],
                  ok |-> TRUE, out |-> scratch \o p.data]
            ELSE ReadRecordLoop(
                     report(r1, Len(p.data) + (IF in_frag THEN Len(scratch) ELSE 0),
                            "unknown record type"),
                     <<>>, FALSE, po)

\* one turn of the loop on the outcome p of read_physical_record
ReadRecordMatch(p, scratch, in_frag, po) ==
        IF p.kind = "Eof" THEN [r |-> p.r, ok |-> FALSE, out |-> <<>>]
        ELSE IF p.kind = "Bad"
        THEN IF in_frag
             THEN ReadRecordLoop(report(p.r, Len(scratch), "error in middle of record"),
                                 <<>>, FALSE, po)
             ELSE ReadRecordLoop(p.r, scratch, in_frag, po)
        ELSE IF p.r.resyncing /\ p.typ = RT_Middle
        THEN ReadRecordLoop(p.r, scratch, in_frag, po)
        ELSE IF p.r.resyncing /\ p.typ = RT_Last
        THEN ReadRecordLoop([p.r EXCEPT !.resyncing = FALSE], scratch, in_frag, po)
        ELSE
        LET r1 == [p.r EXCEPT !.resyncing = FALSE]
        IN  IF p.typ = RT_Full
            THEN LET r2 == IF in_frag /\ scratch # <<>>
                           THEN report(r1, Len(scratch), "partial record without end(1)")
                           ELSE r1
                 IN  [r |-> [r2 EXCEPT !.last_record_offset = p.physical_offset],
                      ok |-> TRUE, out |-> p.data]
            ELSE IF p.typ = RT_First
            THEN LET r2 == IF in_frag /\ scratch # <<>>
                           THEN report(r1, Len(scratch), "partial record without end(2)")
                           ELSE r1
                 IN  ReadRecordLoop(r2, p.data, TRUE, p.physical_offset)
            ELSE IF p.typ = RT_Middle
            THEN IF ~in_frag
                 THEN ReadRecordLoop(
                          report(r1, Len(p.data), "missing start of fragmented record(1)"),
                          scratch, in_frag, po)
                 ELSE ReadRecordLoop(r1, scratch \o p.data, in_frag, po)
            ELSE IF p.typ = RT_Last
            THEN IF ~in_frag
                 THEN ReadRecordLoop(
                          report(r1, Len(p.data), "missing start of fragmented record(2)"),
                          scratch, in_frag, po)
                 ELSE [r |-> [r1 EXCEPT !.last_record_offset = po],
                       ok |-> TRUE, out |-> scratch \o p.data]
            ELSE ReadRecordLoop(
                     report(r1, Len(p.data) + (IF in_frag THEN Len(scratch) ELSE 0),
                            "unknown record type"),
                     <<>>, FALSE, po)

ReadRecordLoop(r, scratch, in_frag, po) ==
    ReadRecordMatch(read_physical_record(r), scratch, in_frag, po)

\* Reader::read_record
read_record(r) ==
    LET r0 == IF r.last_record_offset < r.initial_offset
              THEN skip_to_initial_block(r) ELSE r
    IN  ReadRecordLoop(r0, <<>>, FALSE, 0)

(***************************************************************************)
(* wal.rs: WriteAheadLogIter.  The entries the iterator yields from a log  *)
(* file: it opens the file, reads with checksums from offset 0, decodes    *)
(* each record, and yields Some(Err(..)) for a record that does not        *)
(* decode (an Entry with tag "Err" here).                                  *)
(***************************************************************************)
ErrEntry(e) == [tag |-> "Err", err |-> e]

RECURSIVE WalIterFrom(_)
WalIterFrom(r) ==
    LET rec == read_record(r)
    IN  IF ~rec.ok THEN <<>>
        ELSE LET d == decode_entry(rec.out)
             IN  <<(IF d.ok THEN d.entry ELSE ErrEntry(d.err))>> \o WalIterFrom(rec.r)

WriteAheadLogIter(file) == WalIterFrom(Reader_new(file, TRUE, TRUE, 0))


(***************************************************************************)
(* Finite maps (BTreeMap): functions whose domain is a finite set of keys. *)
(***************************************************************************)
EmptyMap == [k \in {} |-> 0]

MapInsert(m, k, v) == [x \in DOMAIN m \cup {k} |-> IF x = k THEN v ELSE m[x]]

MapRemove(m, k) == [x \in DOMAIN m \ {k} |-> m[x]]

\* the lexicographic order on byte strings, the order of BTreeMap<Vec<u8>, _>
RECURSIVE BytesLess(_, _)
BytesLess(a, b) ==
    IF a = <<>> THEN b # <<>>
    ELSE IF b = <<>> THEN FALSE
    ELSE IF a[1] # b[1] THEN a[1] < b[1]
    ELSE BytesLess(Tail(a), Tail(b))

\* BytewiseComparator::compare: a.cmp(b) on byte slices
compare(a, b) ==
    IF a = b THEN "Equal" ELSE IF BytesLess(a, b) THEN "Less" ELSE "Greater"

\* the most levels a skip list has
MAX_LEVEL == 12

\* SkipList::new: a head node of MAX_LEVEL empty links, level 1
SkipList_new ==
    [head |-> [i \in 1..MAX_LEVEL |-> 0], nodes |-> <<>>, level |-> 1]

\* next[i] of a node, the head being node 0
NextLink(l, cur, i) ==
    IF cur = 0 THEN l.head[i + 1] ELSE l.nodes[cur].next[i + 1]

\* the inner loop of insert and get at level i: advance while the next
\* element compares Less than the key
RECURSIVE Advance(_, _, _, _)
Advance(l, cur, i, key) ==
    LET n == NextLink(l, cur, i)
    IN  IF n # 0 /\ compare(l.nodes[n].element.user_key, key) = "Less"
        THEN Advance(l, n, i, key)
        ELSE cur

\* the outer loop of insert: from level i down to level 0, update[i] is the
\* node the search stopped at; the levels above keep the head
RECURSIVE Descend(_, _, _, _, _)
Descend(l, cur, i, key, update) ==
    IF i < 0 THEN update
    ELSE LET c == Advance(l, cur, i, key)
         IN  Descend(l, c, i - 1, key, [update EXCEPT ![i] = c])

\* SkipList::insert with random_level() = new_level
SkipList_insert(l, element, new_level) ==
    LET update == Descend(l, 0, l.level - 1, element.user_key,
                          [i \in 0..(MAX_LEVEL - 1) |-> 0])
        idx == Len(l.nodes) + 1
        new_node == [element |-> element,
                     next |-> [j \in 1..new_level |->
                                  NextLink(l, update[j - 1], j - 1)]]
        Relink(n, next) ==
            [j \in DOMAIN next |->
                IF j <= new_level /\ update[j - 1] = n THEN idx ELSE next[j]]
    IN  [head |-> Relink(0, l.head),
         nodes |-> Append([n \in 1..Len(l.nodes) |->
                              [l.nodes[n] EXCEPT !.next = Relink(n, @)]],
                          new_node),
         level |-> IF new_level > l.level THEN new_level ELSE l.level]

\* the search of get from level i down to level 0
RECURSIVE Search(_, _, _, _)
Search(l, cur, i, key) ==
    IF i < 0 THEN cur ELSE Search(l, Advance(l, cur, i, key), i - 1, key)

\* SkipList::get: the element after the node the search stopped at, if its
\* key compares Equal
SkipList_get(l, key) ==
    LET n == NextLink(l, Search(l, 0, l.level - 1, key), 0)
    IN  IF n # 0 /\ compare(l.nodes[n].element.user_key, key) = "Equal"
        THEN <<"Some", l.nodes[n].element>>
        ELSE <<"None">>

\* SkipList::iter collected: the elements along the links of level 0
RECURSIVE IterFrom(_, _)
IterFrom(l, cur) ==
    IF cur = 0 THEN <<>>
    ELSE <<l.nodes[cur].element>> \o IterFrom(l, l.nodes[cur].next[1])

SkipList_iter(l) == IterFrom(l, l.head[1])

\* the keys of a set in ascending order: the order BTreeMap iterates in
RECURSIVE SortedKeys(_)
SortedKeys(S) ==
    IF S = {} THEN <<>>
    ELSE LET least == CHOOSE k \in S : \A o \in S \ {k} : BytesLess(k, o)
         IN  <<least>> \o SortedKeys(S \ {least})

(***************************************************************************)
(* memtable.rs: MemTable = [map, tombstones, current_sequence_number];     *)
(* map sends a key to <<value, sequence>>, tombstones a key to a sequence. *)
(***************************************************************************)
MemTable_new == [map |-> EmptyMap, tombstones |-> EmptyMap, current_sequence_number |-> 0]

MemTable_insert(mt, key, value) ==
    LET seq == mt.current_sequence_number + 1
    IN  [mt EXCEPT !.current_sequence_number = seq,
                   !.map = MapInsert(mt.map, key, <<value, seq>>)]

\* a faulty MemTable::delete that leaves the live entry in place
MemTable_delete_keeps_live(mt, key) ==
    LET seq == mt.current_sequence_number + 1
    IN  [mt EXCEPT !.current_sequence_number = seq,
                   !.tombstones = MapInsert(mt.tombstones, key, seq)]

\* a faulty MemTable::delete that stores the tombstone under the sequence
\* number of the mutation before it
MemTable_delete_old_sequence(mt, key) ==
    LET seq == mt.current_sequence_number + 1
    IN  [mt EXCEPT !.current_sequence_number = seq,
                   !.map = MapRemove(mt.map, key),
                   !.tombstones = MapInsert(mt.tombstones, key, seq - 1)]

\* a faulty MemTable::delete that takes the tombstone away from a key that
\* has one already
MemTable_delete_toggles(mt, key) ==
    LET seq == mt.current_sequence_number + 1
    IN  [mt EXCEPT !.current_sequence_number = seq,
                   !.map = MapRemove(mt.map, key),
                   !.tombstones = IF key \in DOMAIN mt.tombstones
                                  THEN MapRemove(mt.tombstones, key)
                                  ELSE MapInsert(mt.tombstones, key, seq)]

MemTable_delete(mt, key) ==
    LET seq == mt.current_sequence_number + 1
    IN  [mt EXCEPT !.current_sequence_number = seq,
                   !.map = MapRemove(mt.map, key),
                   !.tombstones = MapInsert(mt.tombstones, key, seq)]

\* Option<&(Value, SequenceNumber)>: <<"Some", <<value, seq>>>> or <<"None">>
MemTable_get(mt, key) ==
    IF key \in DOMAIN mt.map THEN <<"Some", mt.map[key]>> ELSE <<"None">>

\* a faulty MemTable::is_full that is true only above the threshold
MemTable_is_full_above(mt) ==
    Cardinality(DOMAIN mt.map) + Cardinality(DOMAIN mt.tombstones) > FlushThreshold

MemTable_is_full(mt) ==
    Cardinality(DOMAIN mt.map) + Cardinality(DOMAIN mt.tombstones) >= FlushThreshold

\* a faulty MemTable::flush that starts the sequence numbers again
MemTable_flush_resets(mt) ==
    [mt |-> MemTable_new, data |-> mt.map, tombstones |-> mt.tombstones]

\* a faulty MemTable::flush that leaves the tombstones in the memtable
MemTable_flush_keeps_tombstones(mt) ==
    [mt |-> [mt EXCEPT !.map = EmptyMap],
     data |-> mt.map, tombstones |-> mt.tombstones]

\* MemTable::flush: the two maps are handed out and replaced by empty ones
MemTable_flush(mt) ==
    [mt |-> [mt EXCEPT !.map = EmptyMap, !.tombstones = EmptyMap],
     data |-> mt.map, tombstones |-> mt.tombstones]

(***************************************************************************)
(* bloom_filter.rs: bit_array is kept as the set of the indices set true.  *)
(* The keys of the model are short, so the wrapping sums do not wrap.      *)
(***************************************************************************)
BLOOM_SIZE == 1024

BloomFilter_default == [bit_array |-> {}, size |-> BLOOM_SIZE]

RECURSIVE hash1(_)
hash1(key) == IF key = <<>> THEN 0 ELSE hash1(SubSeq(key, 1, Len(key) - 1)) + key[Len(key)]

RECURSIVE hash2(_)
hash2(key) ==
    IF key = <<>> THEN 0 ELSE hash2(SubSeq(key, 1, Len(key) - 1)) * 31 + key[Len(key)]

\* an add that would set the bit of hash1 only
BloomFilter_add_one_bit(bf, key) ==
    [bf EXCEPT !.bit_array = @ \cup {hash1(key) % bf.size}]

BloomFilter_add(bf, key) ==
    [bf EXCEPT !.bit_array = @ \cup {hash1(key) % bf.size, hash2(key) % bf.size}]

BloomFilter_contains(bf, key) ==
    (hash1(key) % bf.size) \in bf.bit_array /\ (hash2(key) % bf.size) \in bf.bit_array

(***************************************************************************)
(* sstable.rs.  An SSTable handle is [file_path, index, bloom_filter];     *)
(* file_path is the N of "sstable_N.db" and index sends a key to the byte  *)
(* offset of its entry in the file.                                        *)
(***************************************************************************)
\* sequence_number.to_be_bytes(), for the sequence numbers the model reaches
U64BE(n) == <<0, 0, 0, 0, 0, 0, (n \div 256) % 256, n % 256>>

\* write_entry with Some(value)
write_entry_put(key, value, sequence_number) ==
    <<0>> \o U64BE(sequence_number) \o U32BE(Len(key)) \o key
          \o U32BE(Len(value)) \o value

\* write_entry with None
write_entry_delete(key, sequence_number) ==
    <<1>> \o U64BE(sequence_number) \o U32BE(Len(key)) \o key

\* wal.rs read_bytes on the bytes of a file from `offset`: [ok, out, offset]
read_bytes(file, offset) ==
    IF Len(file) < offset + 4 \/ file[offset + 1] # 0 THEN [ok |-> FALSE]
    ELSE LET len == file[offset + 2] * 65536 + file[offset + 3] * 256 + file[offset + 4]
         IN  IF Len(file) < offset + 4 + len THEN [ok |-> FALSE]
             ELSE [ok |-> TRUE, out |-> Slice(file, offset + 4, offset + 4 + len),
                   offset |-> offset + 4 + len]

\* read_entry on the bytes of a file from `offset`:
\* [ok |-> TRUE, entry] or [ok |-> FALSE]
read_entry(file, offset) ==
    IF Len(file) < offset + 9 THEN [ok |-> FALSE]
    ELSE LET type_byte == file[offset + 1]
             key       == read_bytes(file, offset + 9)
         IN  IF ~key.ok THEN [ok |-> FALSE]
             ELSE IF type_byte = 0
             THEN LET value == read_bytes(file, key.offset)
                  IN  IF ~value.ok THEN [ok |-> FALSE]
                      ELSE [ok |-> TRUE, entry |-> PutEntry(key.out, value.out)]
             ELSE IF type_byte = 1 THEN [ok |-> TRUE, entry |-> DeleteEntry(key.out)]
             ELSE [ok |-> FALSE]

\* the first loop of SSTable::write, over the live map in key order;
\* st = [file, index, bloom_filter]
RECURSIVE WriteLive(_, _, _)
WriteLive(st, data, keys) ==
    IF keys = <<>> THEN st
    ELSE LET key    == Head(keys)
             offset == Len(st.file)
             st1    == [file |-> st.file \o write_entry_put(key, data[key][1], data[key][2]),
                        index |-> MapInsert(st.index, key, offset),
                        bloom_filter |-> BloomFilter_add(st.bloom_filter, key)]
         IN  WriteLive(st1, data, Tail(keys))

\* the second loop of SSTable::write, over the tombstones in key order
RECURSIVE WriteTombstones(_, _, _)
WriteTombstones(st, tombstones, keys) ==
    IF keys = <<>> THEN st
    ELSE LET key    == Head(keys)
             offset == Len(st.file)
             st1    == [file |-> st.file \o write_entry_delete(key, tombstones[key]),
                        index |-> MapInsert(st.index, key, offset),
                        bloom_filter |-> BloomFilter_add(st.bloom_filter, key)]
         IN  WriteTombstones(st1, tombstones, Tail(keys))

\* SSTable::write when every file operation succeeds: the bytes of the file
\* and the handle
SSTable_write(data, tombstones, file_path) ==
    LET st0 == [file |-> <<>>, index |-> EmptyMap, bloom_filter |-> BloomFilter_default]
        st1 == WriteLive(st0, data, SortedKeys(DOMAIN data))
        st2 == WriteTombstones(st1, tombstones, SortedKeys(DOMAIN tombstones))
    IN  [file |-> st2.file,
         sstable |-> [file_path |-> file_path, index |-> st2.index,
                      bloom_filter |-> st2.bloom_filter]]

\* SSTable::get on the files of the disk: <<"Some", value>>, <<"None">> or
\* <<"Err">> (the entry at the offset cannot be read)
SSTable_get(sstable, files, key) ==
    IF ~BloomFilter_contains(sstable.bloom_filter, key) THEN <<"None">>
    ELSE IF key \in DOMAIN sstable.index
    THEN IF sstable.file_path \notin DOMAIN files THEN <<"Err">>
         ELSE LET e == read_entry(files[sstable.file_path], sstable.index[key])
              IN  IF ~e.ok THEN <<"Err">>
                  ELSE IF e.entry.tag = "Put" THEN <<"Some", e.entry.value>>
                  ELSE <<"None">>
    ELSE <<"None">>


(***************************************************************************)
(* saturndb.rs: the engine.                                                *)
(*                                                                         *)
(* The disk: walFile, the bytes of the log file, and sstFiles, the bytes   *)
(* of each "sstable_N.db" (a function of N).  Both outlive the engine.     *)
(* The engine: writer (the cursor of the log's File handle and             *)
(* Writer::block_offset), memtable, sstables (the stack of handles), the   *)
(* owner of the memtable mutex (memLock) and whether a panic has poisoned  *)
(* it.  The log mutex is held for one append and nothing else is locked    *)
(* inside it, so an append is one step; the stack's RwLock is held for one *)
(* scan or one push, each one step.                                        *)
(* Each thread: pc, its position in a call; call, the call it is in or     *)
(* made last; flushLocal, the locals of flush_memtable; result, what its   *)
(* last call returned.                                                     *)
(* History, read by the properties only: nOps, nRestarts, nFaults count    *)
(* calls, restarts and injected I/O failures; logged and applied list the  *)
(* mutations of this engine in the order of their log records and of their *)
(* memtable mutations; everLogged lists the entries every engine appended  *)
(* to the log file; life and prev describe this engine and the one before. *)
(***************************************************************************)
VARIABLES walFile, sstFiles, writer, memtable, sstables, memLock, memPoisoned,
          pc, call, flushLocal, result,
          nOps, nRestarts, nFaults, logged, applied, everLogged, life, prev

engineVars == <<walFile, sstFiles, writer, memtable, sstables, memLock, memPoisoned,
                pc, call, flushLocal, result,
                nOps, nRestarts, nFaults, logged, applied, everLogged, life, prev>>

\* A log stream on its own, outside the engine: stream is a Writer on a
\* byte stream, reader a Reader on those bytes, phase says whether the
\* stream is still written ("write"), read ("read") or read to its end
\* ("done"); written and readOut list the payloads handed to add_record and
\* what the read_record calls returned.  Before it is read the file may be
\* cut (phase "torn") or have one byte changed (phase "damaged", the byte's
\* offset in damaged, -1 otherwise); layout lists the physical records the
\* writer emitted, with the bytes each one occupies.
VARIABLES stream, reader, phase, written, readOut, layout, damaged

logVars == <<stream, reader, phase, written, readOut, layout, damaged>>

\* An SSTable on its own: tblIn is what SSTable::write was given
\* ([data, tombstones]), tblOut what it produced ([file, sstable]; the file
\* is empty and the handle blank before the call), tblGot the last call of
\* SSTable::get and its result ([key, out]).
VARIABLES tblIn, tblOut, tblGot

tableVars == <<tblIn, tblOut, tblGot>>

\* A WriteAheadLog on its own, on a file that starts empty: codecLog is the
\* file and the writer's cursor and block_offset, codecIn the entries
\* appended, codecOut what the last WriteAheadLog::iter yielded
\* (<<"NotCalled">> before it), codecTrip the last entry that was encoded and
\* decoded again and what came back.
VARIABLES codecLog, codecIn, codecOut, codecTrip

codecVars == <<codecLog, codecIn, codecOut, codecTrip>>

\* the variables outside the engine and the log stream
\* A function called on its own: [fn |-> its name, arg |-> its argument,
\* out |-> what it returned], or [fn |-> "none"] before any call.
VARIABLES fnCall

fnVars == <<fnCall>>

\* A SkipList of elements [user_key, sequence] under the BytewiseComparator:
\* [head |-> the forward links of the head node, nodes |-> the nodes made so
\* far, level |-> the level of the list].  A link is the index of a node in
\* nodes, or 0 for None; the link of level i of the code is next[i + 1].
VARIABLES skiplist

listVars == <<skiplist>>

sideVars == <<tableVars, codecVars, fnVars, listVars>>

vars == <<engineVars, logVars, sideVars>>

Threads == {1, 2}

NoCall == [op |-> "none", id |-> 0, key |-> <<>>, value |-> <<>>]
NoFlush == [data |-> EmptyMap, tombstones |-> EmptyMap, sstable_path |-> 0,
            sstable |-> [file_path |-> 0, index |-> EmptyMap,
                         bloom_filter |-> BloomFilter_default]]

EntryOf(c) == IF c.op = "put" THEN PutEntry(c.key, c.value) ELSE DeleteEntry(c.key)

\* WriteAheadLog::new on the file as it is: OpenOptions without append or
\* truncate leaves the cursor at byte 0; only block_offset comes from the
\* length of the file.
WriteAheadLog_new(file) ==
    LET w == Writer_with_starting_offset(file, 0, Len(file))
    IN  [pos |-> w.pos, block_offset |-> w.block_offset]

\* WriteAheadLog::append when every write succeeds
WriteAheadLog_append(file, wr, entry) ==
    add_record([dest |-> file, pos |-> wr.pos, block_offset |-> wr.block_offset],
               encode_entry(entry))

\* WriteAheadLog::append when a write fails: the first write_all fails and
\* nothing is written, or the header is written and the payload is not
\* (block_offset is advanced only by a complete physical record)
WriteAheadLog_append_failed(file, wr, entry) ==
    LET w == [dest |-> file, pos |-> wr.pos, block_offset |-> wr.block_offset]
    IN  {w, write_all(w, PhysicalHeader(RT_Full, encode_entry(entry)))}

\* the memtable part of SaturnDB::get: the live value, then the tombstone
GetMemtable(mt, key) ==
    LET g == MemTable_get(mt, key)
    IN  IF g[1] = "Some" THEN <<"Some", g[2][1]>>
        ELSE IF key \in DOMAIN mt.tombstones THEN <<"None">>
        ELSE <<"Miss">>

\* a faulty scan of the stack, oldest first: i handles are left to visit
RECURSIVE GetSSTablesOldestFirst(_, _, _, _)
GetSSTablesOldestFirst(stack, files, key, i) ==
    IF i = 0 THEN <<"None">>
    ELSE LET j == Len(stack) - i + 1
             g == SSTable_get(stack[j], files, key)
         IN  IF g[1] # "None" THEN g
             ELSE IF key \in DOMAIN stack[j].index THEN g
             ELSE GetSSTablesOldestFirst(stack, files, key, i - 1)

\* the loop of SaturnDB::get over sstables.iter().rev(), from position i down
RECURSIVE GetSSTables(_, _, _, _)
GetSSTables(stack, files, key, i) ==
    IF i = 0 THEN <<"None">>
    ELSE LET g == SSTable_get(stack[i], files, key)
         IN  IF g[1] = "Err" THEN <<"Err">>
             ELSE IF g[1] = "Some" THEN g
             ELSE IF key \in DOMAIN stack[i].index
             THEN SSTable_get(stack[i], files, key)
             ELSE GetSSTables(stack, files, key, i - 1)

\* what SaturnDB::get(key) returns from the present state
SaturnDB_get(key) ==
    LET m == GetMemtable(memtable, key)
    IN  IF m[1] # "Miss" THEN m
        ELSE GetSSTables(sstables, sstFiles, key, Len(sstables))

\* the loop of SaturnDB::recover over the entries of the log (an item that
\* is no Entry matches no arm and is passed over)
RECURSIVE Replay(_, _)
Replay(mt, entries) ==
    IF entries = <<>> THEN mt
    ELSE LET e == Head(entries)
         IN  Replay(IF e.tag = "Put" THEN MemTable_insert(mt, e.key, e.value)
                    ELSE IF e.tag = "Delete" THEN MemTable_delete(mt, e.key)
                    ELSE mt,
                    Tail(entries))

NewLife(file) ==
    [openedEmpty |-> file = <<>>, calls |-> 0, recovers |-> 0, firstRecover |-> FALSE,
     sequential |-> TRUE, noflush |-> TRUE, flushed |-> <<>>]

NoPrev == [valid |-> FALSE, view |-> [k \in Keys |-> <<"None">>]]

\* SaturnDB::new on a log path whose file does not exist yet
Init ==
    /\ walFile = <<>>
    /\ sstFiles = EmptyMap
    /\ writer = WriteAheadLog_new(<<>>)
    /\ memtable = MemTable_new
    /\ sstables = <<>>
    /\ memLock = 0
    /\ memPoisoned = FALSE
    /\ pc = [t \in Threads |-> "idle"]
    /\ call = [t \in Threads |-> NoCall]
    /\ flushLocal = [t \in Threads |-> NoFlush]
    /\ result = [t \in Threads |-> <<"Init">>]
    /\ nOps = 0
    /\ nRestarts = 0
    /\ nFaults = 0
    /\ logged = <<>>
    /\ applied = <<>>
    /\ everLogged = <<>>
    /\ life = NewLife(<<>>)
    /\ prev = NoPrev
    /\ stream = Writer_new
    /\ reader = Reader_new(<<>>, TRUE, TRUE, 0)
    /\ phase = "write"
    /\ written = <<>>
    /\ readOut = <<>>
    /\ layout = <<>>
    /\ damaged = -1
    /\ tblIn = [written |-> FALSE, data |-> EmptyMap, tombstones |-> EmptyMap]
    /\ tblOut = [file |-> <<>>, sstable |-> NoFlush.sstable]
    /\ tblGot = [key |-> <<>>, out |-> <<"NotCalled">>]
    /\ codecLog = [file |-> <<>>, wr |-> WriteAheadLog_new(<<>>)]
    /\ codecIn = <<>>
    /\ codecOut = <<"NotCalled">>
    /\ codecTrip = [called |-> FALSE]
    /\ fnCall = [fn |-> "none"]
    /\ skiplist = SkipList_new

\* a thread begins a call: the history of the engine
Begin(t, op, k, v) ==
    /\ pc[t] = "idle"
    /\ nOps < MaxOps
    /\ nOps' = nOps + 1
    /\ call' = [call EXCEPT ![t] = [op |-> op, id |-> nOps + 1, key |-> k, value |-> v]]
    /\ life' = [life EXCEPT
                  !.calls = Min(@ + 1, 2),
                  !.recovers = IF op = "recover" THEN Min(@ + 1, 2) ELSE @,
                  !.firstRecover = IF life.calls = 0 THEN op = "recover" ELSE @,
                  !.noflush = @ /\ op # "flush",
                  !.sequential = @ /\ \A o \in Threads : pc[o] = "idle"]


Ok == <<"Ok">>
Err == <<"Err">>

SetWal(w) ==
    /\ walFile' = w.dest
    /\ writer' = [pos |-> w.pos, block_offset |-> w.block_offset]

\* SaturnDB::put, lines 24-30: the log record is appended under the log lock
Put_wal(t, k, v) ==
    /\ Begin(t, "put", k, v)
    /\ SetWal(WriteAheadLog_append(walFile, writer, PutEntry(k, v)))
    /\ pc' = [pc EXCEPT ![t] = "put_mem"]
    /\ logged' = Append(logged, [id |-> nOps + 1, entry |-> PutEntry(k, v)])
    /\ everLogged' = Append(everLogged, PutEntry(k, v))
    /\ UNCHANGED <<sstFiles, memtable, sstables, memLock, memPoisoned, flushLocal,
                   result, nRestarts, nFaults, applied, prev>>
    /\ UNCHANGED <<logVars, sideVars>>

\* a faulty put that inserts into the memtable although wal.append failed
Put_wal_failed_applies(t, k, v) ==
    /\ Begin(t, "put", k, v)
    /\ nFaults < MaxFaults
    /\ nFaults' = nFaults + 1
    /\ memtable' = MemTable_insert(memtable, k, v)
    /\ result' = [result EXCEPT ![t] = Err]
    /\ UNCHANGED <<walFile, writer, sstFiles, sstables, memLock, memPoisoned, pc,
                   flushLocal, nRestarts, logged, applied, everLogged, prev>>
    /\ UNCHANGED <<logVars, sideVars>>

\* SaturnDB::put, lines 26-29, when wal.append fails: `?` returns the error
Put_wal_failed(t, k, v) ==
    /\ Begin(t, "put", k, v)
    /\ nFaults < MaxFaults
    /\ nFaults' = nFaults + 1
    /\ \E w \in WriteAheadLog_append_failed(walFile, writer, PutEntry(k, v)) :
           /\ walFile' = w.dest
           /\ writer' = [pos |-> w.pos, block_offset |-> writer.block_offset]
    /\ result' = [result EXCEPT ![t] = Err]
    /\ UNCHANGED <<sstFiles, memtable, sstables, memLock, memPoisoned, pc, flushLocal,
                   nRestarts, logged, applied, everLogged, prev>>
    /\ UNCHANGED <<logVars, sideVars>>

\* what put and delete do once the memtable is mutated under its lock
\* (lines 35-38 and 50-53): return Ok with the guard dropped, or, the
\* memtable being full, call flush_memtable with the guard still alive
AfterMutation(t, mt) ==
    /\ memtable' = mt
    /\ applied' = Append(applied, [id |-> call[t].id, entry |-> EntryOf(call[t])])
    /\ IF MemTable_is_full(mt)
       THEN /\ memLock' = t
            /\ pc' = [pc EXCEPT ![t] = "flush_call"]
            /\ life' = [life EXCEPT !.noflush = FALSE]
            /\ UNCHANGED result
       ELSE /\ pc' = [pc EXCEPT ![t] = "idle"]
            /\ result' = [result EXCEPT ![t] = Ok]
            /\ UNCHANGED <<memLock, life>>
    /\ UNCHANGED <<walFile, sstFiles, writer, sstables, memPoisoned, call, flushLocal,
                   nOps, nRestarts, nFaults, logged, everLogged, prev>>

\* SaturnDB::put, lines 32-38
Put_mem(t) ==
    /\ pc[t] = "put_mem"
    /\ memLock = 0
    /\ ~memPoisoned
    /\ AfterMutation(t, MemTable_insert(memtable, call[t].key, call[t].value))
    /\ UNCHANGED <<logVars, sideVars>>

\* SaturnDB::delete, lines 42-45
Delete_wal(t, k) ==
    /\ Begin(t, "delete", k, <<>>)
    /\ SetWal(WriteAheadLog_append(walFile, writer, DeleteEntry(k)))
    /\ pc' = [pc EXCEPT ![t] = "delete_mem"]
    /\ logged' = Append(logged, [id |-> nOps + 1, entry |-> DeleteEntry(k)])
    /\ everLogged' = Append(everLogged, DeleteEntry(k))
    /\ UNCHANGED <<sstFiles, memtable, sstables, memLock, memPoisoned, flushLocal,
                   result, nRestarts, nFaults, applied, prev>>
    /\ UNCHANGED <<logVars, sideVars>>

\* SaturnDB::delete, line 44, when wal.append fails
Delete_wal_failed(t, k) ==
    /\ Begin(t, "delete", k, <<>>)
    /\ nFaults < MaxFaults
    /\ nFaults' = nFaults + 1
    /\ \E w \in WriteAheadLog_append_failed(walFile, writer, DeleteEntry(k)) :
           /\ walFile' = w.dest
           /\ writer' = [pos |-> w.pos, block_offset |-> writer.block_offset]
    /\ result' = [result EXCEPT ![t] = Err]
    /\ UNCHANGED <<sstFiles, memtable, sstables, memLock, memPoisoned, pc, flushLocal,
                   nRestarts, logged, applied, everLogged, prev>>
    /\ UNCHANGED <<logVars, sideVars>>

\* SaturnDB::delete, lines 47-53
Delete_mem(t) ==
    /\ pc[t] = "delete_mem"
    /\ memLock = 0
    /\ ~memPoisoned
    /\ AfterMutation(t, MemTable_delete(memtable, call[t].key))
    /\ UNCHANGED <<logVars, sideVars>>

\* flush_memtable, line 88, reached from put or delete: the thread locks the
\* mutex whose guard it still holds.  std::sync::Mutex leaves this
\* unspecified, except that lock() does not return: the thread stays blocked
\* with the mutex held, or it panics, and the unwinding drops the guard of
\* put/delete and poisons the mutex.
Flush_relock(t) ==
    /\ pc[t] = "flush_call"
    /\ memLock = t
    /\ \/ /\ pc' = [pc EXCEPT ![t] = "blocked"]
          /\ UNCHANGED <<memLock, memPoisoned>>
       \/ /\ pc' = [pc EXCEPT ![t] = "panicked"]
          /\ memLock' = 0
          /\ memPoisoned' = TRUE
    /\ UNCHANGED <<walFile, sstFiles, writer, memtable, sstables, call, flushLocal,
                   result, nOps, nRestarts, nFaults, logged, applied, everLogged,
                   life, prev>>
    /\ UNCHANGED <<logVars, sideVars>>

\* memtable.lock().unwrap() in put/delete on a poisoned mutex: the thread panics
Lock_poisoned(t) ==
    /\ pc[t] \in {"put_mem", "delete_mem"}
    /\ memLock = 0
    /\ memPoisoned
    /\ pc' = [pc EXCEPT ![t] = "panicked"]
    /\ UNCHANGED <<walFile, sstFiles, writer, memtable, sstables, memLock, memPoisoned,
                   call, flushLocal, result, nOps, nRestarts, nFaults, logged, applied,
                   everLogged, life, prev>>
    /\ UNCHANGED <<logVars, sideVars>>

\* SaturnDB::get, lines 57-65: the memtable is consulted under its lock
Get(t, k) ==
    /\ Begin(t, "get", k, <<>>)
    /\ memLock = 0
    /\ ~memPoisoned
    /\ LET m == GetMemtable(memtable, k)
       IN  IF m[1] # "Miss"
           THEN /\ result' = [result EXCEPT ![t] = m]
                /\ UNCHANGED pc
           ELSE /\ pc' = [pc EXCEPT ![t] = "get_sst"]
                /\ UNCHANGED result
    /\ UNCHANGED <<walFile, sstFiles, writer, memtable, sstables, memLock, memPoisoned,
                   flushLocal, nRestarts, nFaults, logged, applied, everLogged, prev>>
    /\ UNCHANGED <<logVars, sideVars>>

\* SaturnDB::get, lines 67-83: the scan of the stack under its read lock
Get_sst(t) ==
    /\ pc[t] = "get_sst"
    /\ result' = [result EXCEPT ![t] =
                     GetSSTables(sstables, sstFiles, call[t].key, Len(sstables))]
    /\ pc' = [pc EXCEPT ![t] = "idle"]
    /\ UNCHANGED <<walFile, sstFiles, writer, memtable, sstables, memLock, memPoisoned,
                   call, flushLocal, nOps, nRestarts, nFaults, logged, applied,
                   everLogged, life, prev>>
    /\ UNCHANGED <<logVars, sideVars>>

\* SaturnDB::get on a poisoned mutex: lock().unwrap() panics
Get_poisoned(t, k) ==
    /\ Begin(t, "get", k, <<>>)
    /\ memLock = 0
    /\ memPoisoned
    /\ pc' = [pc EXCEPT ![t] = "panicked"]
    /\ UNCHANGED <<walFile, sstFiles, writer, memtable, sstables, memLock, memPoisoned,
                   flushLocal, result, nRestarts, nFaults, logged, applied, everLogged,
                   prev>>
    /\ UNCHANGED <<logVars, sideVars>>

\* the log after each replayed mutation has been appended to it once more
RECURSIVE Reappend(_, _)
Reappend(w, entries) ==
    IF entries = <<>> THEN w
    ELSE Reappend(IF Head(entries).tag \in {"Put", "Delete"}
                  THEN WriteAheadLog_append(w.dest, w, Head(entries))
                  ELSE w,
                  Tail(entries))

\* a recover that appends every entry it replays to the log again
Recover_reappends(t) ==
    /\ Begin(t, "recover", <<>>, <<>>)
    /\ memLock = 0
    /\ ~memPoisoned
    /\ memtable' = Replay(memtable, WriteAheadLogIter(walFile))
    /\ SetWal(Reappend([dest |-> walFile, pos |-> writer.pos,
                        block_offset |-> writer.block_offset],
                       WriteAheadLogIter(walFile)))
    /\ result' = [result EXCEPT ![t] = Ok]
    /\ UNCHANGED <<sstFiles, sstables, memLock, memPoisoned, pc,
                   flushLocal, nRestarts, nFaults, logged, applied, everLogged, prev>>
    /\ UNCHANGED <<logVars, sideVars>>

\* SaturnDB::recover: under the memtable lock, every entry of the log is
\* applied to the memtable; the log is opened and not written
Recover(t) ==
    /\ Begin(t, "recover", <<>>, <<>>)
    /\ memLock = 0
    /\ ~memPoisoned
    /\ memtable' = Replay(memtable, WriteAheadLogIter(walFile))
    /\ result' = [result EXCEPT ![t] = Ok]
    /\ UNCHANGED <<walFile, sstFiles, writer, sstables, memLock, memPoisoned, pc,
                   flushLocal, nRestarts, nFaults, logged, applied, everLogged, prev>>
    /\ UNCHANGED <<logVars, sideVars>>

\* memtable reflected the log when this engine's first mutation was made
Synced(l) ==
    \/ l.openedEmpty /\ l.recovers = 0
    \/ l.firstRecover /\ l.recovers = 1

\* The engine is dropped (or the process ends) and SaturnDB::new opens a new
\* one on the same log path: the files stay, everything in memory is new.
Restart ==
    /\ nRestarts < MaxRestarts
    /\ \A t \in Threads : pc[t] \in {"idle", "blocked", "panicked"}
    /\ nRestarts' = nRestarts + 1
    /\ prev' = [valid |-> /\ \A t \in Threads : pc[t] = "idle"
                          /\ Synced(life) /\ life.sequential /\ life.noflush,
                view |-> [k \in Keys |-> SaturnDB_get(k)]]
    /\ writer' = WriteAheadLog_new(walFile)
    /\ memtable' = MemTable_new
    /\ sstables' = <<>>
    /\ memLock' = 0
    /\ memPoisoned' = FALSE
    /\ pc' = [t \in Threads |-> "idle"]
    /\ call' = [t \in Threads |-> NoCall]
    /\ flushLocal' = [t \in Threads |-> NoFlush]
    /\ result' = [t \in Threads |-> <<"Init">>]
    /\ logged' = <<>>
    /\ applied' = <<>>
    /\ life' = NewLife(walFile)
    /\ UNCHANGED <<walFile, sstFiles, nOps, nFaults, everLogged>>
    /\ UNCHANGED <<logVars, sideVars>>

\* flush_memtable, lines 87-90, run by a caller that holds no lock: the two
\* maps are drained under the memtable lock
Flush_drain(t) ==
    /\ pc[t] = "idle"
    /\ Len(sstables) < MaxSSTables
    /\ memLock = 0
    /\ ~memPoisoned
    /\ LET f == MemTable_flush(memtable)
       IN  /\ memtable' = f.mt
           /\ flushLocal' = [flushLocal EXCEPT ![t] =
                                [NoFlush EXCEPT !.data = f.data,
                                                !.tombstones = f.tombstones]]
    /\ call' = [call EXCEPT ![t] = [op |-> "flush", id |-> nOps, key |-> <<>>,
                                    value |-> <<>>]]
    /\ pc' = [pc EXCEPT ![t] = "flush_path"]
    /\ life' = [life EXCEPT !.noflush = FALSE]
    /\ UNCHANGED <<walFile, sstFiles, writer, sstables, memLock, memPoisoned, result,
                   nOps, nRestarts, nFaults, logged, applied, everLogged, prev>>
    /\ UNCHANGED <<logVars, sideVars>>

\* a flush that would push the handle without having written the file
Flush_path_skips_write(t) ==
    /\ pc[t] = "flush_path"
    /\ flushLocal' = [flushLocal EXCEPT
                         ![t].sstable_path = Len(sstables),
                         ![t].sstable = SSTable_write(flushLocal[t].data,
                                                      flushLocal[t].tombstones,
                                                      Len(sstables)).sstable]
    /\ pc' = [pc EXCEPT ![t] = "flush_push"]
    /\ UNCHANGED <<walFile, sstFiles, writer, memtable, sstables, memLock, memPoisoned,
                   call, result, nOps, nRestarts, nFaults, logged, applied, everLogged,
                   life, prev>>
    /\ UNCHANGED <<logVars, sideVars>>

\* flush_memtable, line 91: the path is named after the length of the stack,
\* read under its read lock
Flush_path(t) ==
    /\ pc[t] = "flush_path"
    /\ flushLocal' = [flushLocal EXCEPT ![t].sstable_path = Len(sstables)]
    /\ pc' = [pc EXCEPT ![t] = "flush_write"]
    /\ UNCHANGED <<walFile, sstFiles, writer, memtable, sstables, memLock, memPoisoned,
                   call, result, nOps, nRestarts, nFaults, logged, applied, everLogged,
                   life, prev>>
    /\ UNCHANGED <<logVars, sideVars>>

\* flush_memtable, line 92, when SSTable::write succeeds: File::create
\* truncates the path and the entries are written
Flush_write(t) ==
    /\ pc[t] = "flush_write"
    /\ LET w == SSTable_write(flushLocal[t].data, flushLocal[t].tombstones,
                              flushLocal[t].sstable_path)
       IN  /\ sstFiles' = MapInsert(sstFiles, flushLocal[t].sstable_path, w.file)
           /\ flushLocal' = [flushLocal EXCEPT ![t].sstable = w.sstable]
    /\ pc' = [pc EXCEPT ![t] = "flush_push"]
    /\ UNCHANGED <<walFile, writer, memtable, sstables, memLock, memPoisoned, call,
                   result, nOps, nRestarts, nFaults, logged, applied, everLogged,
                   life, prev>>
    /\ UNCHANGED <<logVars, sideVars>>

\* flush_memtable, line 92, when SSTable::write fails: File::create fails and
\* there is no file, or a write fails and the file is left created and empty;
\* `?` returns the error before the push
Flush_write_failed(t) ==
    /\ pc[t] = "flush_write"
    /\ nFaults < MaxFaults
    /\ nFaults' = nFaults + 1
    /\ \/ UNCHANGED sstFiles
       \/ sstFiles' = MapInsert(sstFiles, flushLocal[t].sstable_path, <<>>)
    /\ pc' = [pc EXCEPT ![t] = "idle"]
    /\ result' = [result EXCEPT ![t] = Err]
    /\ UNCHANGED <<walFile, writer, memtable, sstables, memLock, memPoisoned, call,
                   flushLocal, nOps, nRestarts, logged, applied, everLogged, life,
                   prev>>
    /\ UNCHANGED <<logVars, sideVars>>

\* a flush that would put the handle at the oldest end of the stack
Flush_push_front(t) ==
    /\ pc[t] = "flush_push"
    /\ sstables' = <<flushLocal[t].sstable>> \o sstables
    /\ life' = [life EXCEPT !.flushed = Append(@, [data |-> flushLocal[t].data,
                                                   tombstones |-> flushLocal[t].tombstones])]
    /\ pc' = [pc EXCEPT ![t] = "idle"]
    /\ result' = [result EXCEPT ![t] = Ok]
    /\ UNCHANGED <<walFile, sstFiles, writer, memtable, memLock, memPoisoned, call,
                   flushLocal, nOps, nRestarts, nFaults, logged, applied, everLogged,
                   prev>>
    /\ UNCHANGED <<logVars, sideVars>>

\* flush_memtable, lines 93-94: the handle is pushed under the stack's write lock
Flush_push(t) ==
    /\ pc[t] = "flush_push"
    /\ sstables' = Append(sstables, flushLocal[t].sstable)
    /\ life' = [life EXCEPT !.flushed = Append(@, [data |-> flushLocal[t].data,
                                                   tombstones |-> flushLocal[t].tombstones])]
    /\ pc' = [pc EXCEPT ![t] = "idle"]
    /\ result' = [result EXCEPT ![t] = Ok]
    /\ UNCHANGED <<walFile, sstFiles, writer, memtable, memLock, memPoisoned, call,
                   flushLocal, nOps, nRestarts, nFaults, logged, applied, everLogged,
                   prev>>
    /\ UNCHANGED <<logVars, sideVars>>

\* put, delete and get, called by thread t
Client(t) ==
    \/ \E k \in Keys, v \in Values : Put_wal(t, k, v)
    \/ Put_mem(t)
    \/ \E k \in Keys : Delete_wal(t, k)
    \/ Delete_mem(t)
    \/ Flush_relock(t)
    \/ \E k \in Keys : Get(t, k)
    \/ Get_sst(t)

\* a log append that fails
Fault(t) ==
    \/ \E k \in Keys, v \in Values : Put_wal_failed(t, k, v)
    \/ \E k \in Keys : Delete_wal_failed(t, k)

\* what a thread meets once another thread's panic has poisoned the memtable
Poisoned(t) ==
    \/ Lock_poisoned(t)
    \/ \E k \in Keys : Get_poisoned(t, k)

\* the body of flush_memtable, run by thread t on its own
Flush(t) ==
    \/ Flush_drain(t)
    \/ Flush_path(t)
    \/ Flush_write(t)
    \/ Flush_write_failed(t)
    \/ Flush_push(t)

\* One client thread drives the engine through its public operations, and the
\* engine may be dropped and opened again on the same log file.
Next ==
    \/ Client(1)
    \/ Recover(1)
    \/ Restart

Spec == Init /\ [][Next]_vars

\* One client thread drives one engine, and a log append may fail.
NextFault ==
    \/ Client(1)
    \/ Fault(1)

SpecFault == Init /\ [][NextFault]_vars

\* Two client threads drive one engine concurrently.
NextConc ==
    \E t \in Threads : Client(t) \/ Poisoned(t)

SpecConc == Init /\ [][NextConc]_vars

\* One client thread drives one engine and also drains the memtable into
\* SSTables as flush_memtable does (the fields memtable and sstables, and
\* SSTable::write, are public).
NextFlush ==
    \/ Client(1)
    \/ Flush(1)

SpecFlush == Init /\ [][NextFlush]_vars

\* One client thread drives one engine through put, delete, get and recover
\* and also runs the body of flush_memtable.
NextOps ==
    \/ Client(1)
    \/ Recover(1)
    \/ Flush(1)

SpecOps == Init /\ [][NextOps]_vars

\* One client thread drives one engine while it and a second thread run the
\* body of flush_memtable, each step of it interleaved with the other thread.
NextFlushConc ==
    \/ Client(1) /\ nOps' <= MaxConcOps
    \/ \E t \in Threads : Flush(t)

SpecFlushConc == Init /\ [][NextFlushConc]_vars

(***************************************************************************)
(* A log stream on its own: Writer::add_record fills it, a Reader reads it.*)
(***************************************************************************)
\* a payload of n bytes; its bytes depend on n and on the position
Payload(n) == [i \in 1..n |-> (n + i) % 256]

\* payload sizes: empty, small, one that leaves less than a header at the
\* end of the block (the writer pads the trailer), exactly the space of an
\* empty block, a little more than a block, and more than two blocks
PayloadSizes ==
    {0, 3, BLOCK_SIZE - HEADER_SIZE - 5, BLOCK_SIZE - HEADER_SIZE,
     BLOCK_SIZE + 4, 2 * BLOCK_SIZE + 8}

\* the physical records the loop of add_record emits for the rec-th logical
\* record: [rec, typ, from, to], the bytes from..to-1 of the stream holding
\* the header and the fragment
RECURSIVE Fragments(_, _, _, _)
Fragments(w, data, begin, rec) ==
    LET w1       == PadTrailer(w)
        avail    == BLOCK_SIZE - w1.block_offset - HEADER_SIZE
        frag_len == Min(Len(data), avail)
        end      == frag_len = Len(data)
        f        == [rec |-> rec, typ |-> FragmentType(begin, end),
                     from |-> w1.pos, to |-> w1.pos + HEADER_SIZE + frag_len]
        w2       == [w1 EXCEPT !.pos = f.to,
                               !.block_offset = w1.block_offset + HEADER_SIZE + frag_len]
        rest     == Slice(data, frag_len, Len(data))
    IN  IF rest = <<>> THEN <<f>> ELSE <<f>> \o Fragments(w2, rest, FALSE, rec)

\* Writer::add_record(payload) on the stream
Log_add_record(n) ==
    /\ phase = "write"
    /\ Len(written) < MaxRecords
    /\ stream' = add_record(stream, Payload(n))
    /\ written' = Append(written, Payload(n))
    /\ layout' = layout \o Fragments(stream, Payload(n), TRUE, Len(written) + 1)
    /\ UNCHANGED <<reader, phase, readOut, damaged>>
    /\ UNCHANGED <<engineVars, sideVars>>

\* Reader::new(bytes of the stream, reporter, checksum = true, initial_offset)
Log_open(initial_offset) ==
    /\ phase \in {"write", "torn", "damaged"}
    /\ reader' = Reader_new(stream.dest, TRUE, TRUE, initial_offset)
    /\ phase' = "read"
    /\ UNCHANGED <<stream, written, readOut, layout, damaged>>
    /\ UNCHANGED <<engineVars, sideVars>>

\* a crash in mid-append: the file keeps its first n bytes
Log_truncate(n) ==
    /\ phase = "write"
    /\ n \in 0..Len(stream.dest)
    /\ stream' = [stream EXCEPT !.dest = Slice(stream.dest, 0, n)]
    /\ phase' = "torn"
    /\ UNCHANGED <<reader, written, readOut, layout, damaged>>
    /\ UNCHANGED <<engineVars, sideVars>>

\* the byte at offset pos of the file is replaced by another value b
Log_corrupt(pos, b) ==
    /\ phase = "write"
    /\ pos \in 0..(Len(stream.dest) - 1)
    /\ b # stream.dest[pos + 1]
    /\ stream' = [stream EXCEPT !.dest = [stream.dest EXCEPT ![pos + 1] = b]]
    /\ damaged' = pos
    /\ phase' = "damaged"
    /\ UNCHANGED <<reader, written, readOut, layout>>
    /\ UNCHANGED <<engineVars, sideVars>>

\* Reader::read_record: the record it returns, or "end" when it returns false
Log_read_record ==
    /\ phase = "read"
    /\ LET x == read_record(reader)
       IN  /\ reader' = x.r
           /\ readOut' = Append(readOut, IF x.ok THEN <<"rec", x.out>> ELSE <<"end">>)
           /\ phase' = IF x.ok THEN "read" ELSE "done"
    /\ UNCHANGED <<stream, written, layout, damaged>>
    /\ UNCHANGED <<engineVars, sideVars>>

\* Records are written to an empty stream, then a reader started at offset 0
\* reads them.
NextLog ==
    \/ \E n \in PayloadSizes : Log_add_record(n)
    \/ Log_open(0)
    \/ Log_read_record

SpecLog == Init /\ [][NextLog]_vars

\* payload sizes of the fragment-count runs: small, a block and 4 bytes, one
\* byte less than two blocks, two blocks and 8 bytes
FragSizes == {3, BLOCK_SIZE + 4, 2 * BLOCK_SIZE - 1, 2 * BLOCK_SIZE + 8}

\* Records, most of them larger than a block, are written to an empty
\* stream and read back.
NextFrag ==
    \/ \E n \in FragSizes : Log_add_record(n)
    \/ Log_open(0)
    \/ Log_read_record

SpecFrag == Init /\ [][NextFrag]_vars

\* the most physical records a hand-built stream holds
MaxPhys == 4

\* the payload of the physical record at position i of a hand-built stream
PhysPayload(i, n) == [b \in 1..n |-> 16 * i + b]

\* a stream is built of physical records of any type in any order, as the
\* reader's tests build theirs with phys(typ, payload): header and payload
\* are appended as emit_physical_record writes them
Phys_append(t, n) ==
    /\ phase = "write"
    /\ Len(layout) < MaxPhys
    /\ stream.block_offset + HEADER_SIZE + n <= BLOCK_SIZE - HEADER_SIZE
    /\ stream' = emit_physical_record(stream, t, PhysPayload(Len(layout) + 1, n))
    /\ layout' = Append(layout, [rec |-> Len(layout) + 1, typ |-> t,
                                 from |-> stream.pos,
                                 to |-> stream.pos + HEADER_SIZE + n])
    /\ UNCHANGED <<reader, phase, written, readOut, damaged>>
    /\ UNCHANGED <<engineVars, sideVars>>

\* Physical records of the four types, empty or of two bytes, are put in a
\* stream in any order and a reader started at offset 0 reads it to the end.
NextReasm ==
    \/ \E t \in {RT_Full, RT_First, RT_Middle, RT_Last} : \E n \in {0, 2} : Phys_append(t, n)
    \/ Log_open(0)
    \/ Log_read_record

SpecReasm == Init /\ [][NextReasm]_vars

\* payload sizes of the torn-tail runs: empty, small, one followed by a
\* trailer, and one that is split over two blocks
TornSizes == {0, 3, BLOCK_SIZE - HEADER_SIZE - 5, BLOCK_SIZE + 4}

\* Records are written, the file is cut at any byte, and a reader started at
\* offset 0 reads what is left.
NextTorn ==
    \/ \E n \in TornSizes : Log_add_record(n)
    \/ \E n \in 0..(MaxRecords * (2 * BLOCK_SIZE)) : Log_truncate(n)
    \/ Log_open(0)
    \/ Log_read_record

SpecTorn == Init /\ [][NextTorn]_vars

\* payload sizes of the resynchronisation runs: one physical record, two
\* (First, Last) and three (First, Middle, Last)
ResyncSizes == {3, BLOCK_SIZE + 4, 2 * BLOCK_SIZE + 8}

\* Records are written, then a reader is started at any offset of the file.
NextResync ==
    \/ \E n \in ResyncSizes : Log_add_record(n)
    \/ \E o \in 0..Len(stream.dest) : Log_open(o)
    \/ Log_read_record

SpecResync == Init /\ [][NextResync]_vars

\* payload sizes of the runs with a damaged byte: empty, small and split
\* over two blocks
CorruptSizes == {0, 3, BLOCK_SIZE + 4}

\* the offsets at which the physical records of the stream start
RecordStarts == {layout[j].from : j \in 1..Len(layout)}

\* Records are written, one byte of the file is changed (to 0 or to the next
\* value), and a reader is started at offset 0 or at the start of a physical
\* record.
NextCorrupt ==
    \/ \E n \in CorruptSizes : Log_add_record(n)
    \/ \E pos \in 0..(Len(stream.dest) - 1) :
          \E b \in {0, (stream.dest[pos + 1] + 1) % 256} : Log_corrupt(pos, b)
    \/ \E o \in {0} \cup RecordStarts : phase = "damaged" /\ Log_open(o)
    \/ Log_read_record

SpecCorrupt == Init /\ [][NextCorrupt]_vars

\* payload sizes of the runs that watch the reporter: one physical record
\* and two (First, Last)
ReportSizes == {3, BLOCK_SIZE + 4}

\* Records are written; the file is left as it is, is cut at any byte or has
\* one byte changed (to 0 or to the next value); a reader is started at
\* offset 0 or at the start of a physical record and reads to the end.
NextReport ==
    \/ \E n \in ReportSizes : Log_add_record(n)
    \/ \E n \in 0..(MaxRecords * (2 * BLOCK_SIZE)) : Log_truncate(n)
    \/ \E pos \in 0..(Len(stream.dest) - 1) :
          \E b \in {0, (stream.dest[pos + 1] + 1) % 256} : Log_corrupt(pos, b)
    \/ \E o \in {0} \cup RecordStarts : Log_open(o)
    \/ Log_read_record

SpecReport == Init /\ [][NextReport]_vars

(***************************************************************************)
(* An SSTable on its own: SSTable::write on any two maps, then             *)
(* SSTable::get on any key.                                                *)
(***************************************************************************)
\* the keys of the tables: the empty key, two one-byte keys, and a two-byte
\* key whose two Bloom bits are those of the one-byte keys
TableKeys == {<<>>, <<3>>, <<33>>, <<1, 2>>}

\* the sequence numbers of the tables' entries (get does not read them)
TableSeqs == {258}

\* the maps over subsets of TableKeys: BTreeMap<Key, (Value, SequenceNumber)>
LiveMaps ==
    UNION {[D -> {<<v, q>> : v \in Values, q \in TableSeqs}] : D \in SUBSET TableKeys}

\* BTreeMap<Key, SequenceNumber>
TombstoneMaps == UNION {[D -> TableSeqs] : D \in SUBSET TableKeys}

\* SSTable::write(data, tombstones, "sstable_0.db")
Table_write(data, tombstones) ==
    /\ ~tblIn.written
    /\ tblIn' = [written |-> TRUE, data |-> data, tombstones |-> tombstones]
    /\ tblOut' = SSTable_write(data, tombstones, 0)
    /\ UNCHANGED tblGot
    /\ UNCHANGED <<engineVars, logVars, codecVars, fnVars, listVars>>

\* SSTable::get(key) on the table written
Table_get(key) ==
    /\ tblIn.written
    /\ tblGot' = [key |-> key,
                  out |-> SSTable_get(tblOut.sstable, [n \in {0} |-> tblOut.file], key)]
    /\ UNCHANGED <<tblIn, tblOut>>
    /\ UNCHANGED <<engineVars, logVars, codecVars, fnVars, listVars>>

NextTable ==
    \/ \E data \in LiveMaps, tombstones \in TombstoneMaps : Table_write(data, tombstones)
    \/ \E key \in TableKeys : Table_get(key)

SpecTable == Init /\ [][NextTable]_vars

(***************************************************************************)
(* A WriteAheadLog on its own: encode_entry and decode_entry on any entry, *)
(* WriteAheadLog::append and WriteAheadLog::iter on a log that starts      *)
(* empty.                                                                  *)
(***************************************************************************)
\* the keys and values of the entries: empty, one byte, and long enough for
\* two records to cross a block
CodecKeys == {<<>>, <<1>>}
CodecValues == {<<>>, <<7>>, [i \in 1..(BLOCK_SIZE \div 2) |-> i]}

CodecEntries ==
    {PutEntry(k, v) : k \in CodecKeys, v \in CodecValues}
        \cup {DeleteEntry(k) : k \in CodecKeys}

\* decode_entry(encode_entry(e))
Codec_round_trip(e) ==
    /\ codecTrip' = [called |-> TRUE, entry |-> e, back |-> decode_entry(encode_entry(e))]
    /\ UNCHANGED <<codecLog, codecIn, codecOut>>
    /\ UNCHANGED <<engineVars, logVars, tableVars, fnVars, listVars>>

\* WriteAheadLog::append(e)
Codec_append(e) ==
    /\ Len(codecIn) < MaxAppends
    /\ LET w == WriteAheadLog_append(codecLog.file, codecLog.wr, e)
       IN  codecLog' = [file |-> w.dest,
                        wr |-> [pos |-> w.pos, block_offset |-> w.block_offset]]
    /\ codecIn' = Append(codecIn, e)
    /\ codecOut' = <<"NotCalled">>
    /\ UNCHANGED codecTrip
    /\ UNCHANGED <<engineVars, logVars, tableVars, fnVars, listVars>>

\* WriteAheadLog::iter, run to its end
Codec_iter ==
    /\ codecOut' = <<"Iter", WriteAheadLogIter(codecLog.file)>>
    /\ UNCHANGED <<codecLog, codecIn, codecTrip>>
    /\ UNCHANGED <<engineVars, logVars, tableVars, fnVars, listVars>>

NextCodec ==
    \/ \E e \in CodecEntries : Codec_round_trip(e)
    \/ \E e \in CodecEntries : Codec_append(e)
    \/ Codec_iter

SpecCodec == Init /\ [][NextCodec]_vars

(***************************************************************************)
(* Functions called on their own.                                          *)
(***************************************************************************)
\* the initial offsets of the block selection runs: every offset of the
\* first three blocks
SkipOffsets == 0..(3 * BLOCK_SIZE - 1)

\* Reader::skip_to_initial_block of a reader made by Reader::new with
\* initial offset o, as the first read_record calls it
Call_skip_to_initial_block(o) ==
    /\ fnCall' = [fn |-> "skip_to_initial_block", arg |-> o,
                  out |-> skip_to_initial_block(Reader_new(<<>>, TRUE, TRUE, o))]
    /\ UNCHANGED <<engineVars, logVars, tableVars, codecVars, listVars>>

NextSkip == \E o \in SkipOffsets : Call_skip_to_initial_block(o)

SpecSkip == Init /\ [][NextSkip]_vars

\* the io::ErrorKind decode_entry and read_len_prefixed give to each error
ErrorKind(msg) ==
    IF msg \in {"empty WAL record", "unknown WAL tag"} THEN "InvalidData"
    ELSE "UnexpectedEof"

\* the tag bytes of the decoder runs: the two tags of the format and two
\* that are none
DecodeTags == {PUT_TAG, DELETE_TAG, 2, 9}

\* the records of the decoder runs: every prefix of the encoding of an entry
\* with a key of at most two bytes and a value of at most one, its tag byte
\* replaced by each of DecodeTags, and each whole encoding with a byte after it
DecodeInputs ==
    LET encs == {encode_entry(e) :
                    e \in {PutEntry(k, v) : k \in {<<>>, <<1>>, <<3, 4>>}, v \in {<<>>, <<7>>}}
                              \cup {DeleteEntry(k) : k \in {<<>>, <<1>>, <<3, 4>>}}}
    IN  {<<>>}
            \cup UNION {{<<t>> \o Slice(enc, 1, n) : t \in DecodeTags, n \in 1..Len(enc)} :
                           enc \in encs}
            \cup {<<t>> \o Slice(enc, 1, Len(enc)) \o <<5>> : t \in DecodeTags, enc \in encs}

\* decode_entry(src)
Call_decode_entry(src) ==
    /\ fnCall' = [fn |-> "decode_entry", arg |-> src, out |-> decode_entry(src)]
    /\ UNCHANGED <<engineVars, logVars, tableVars, codecVars, listVars>>

NextDecode == \E src \in DecodeInputs : Call_decode_entry(src)

SpecDecode == Init /\ [][NextDecode]_vars

(***************************************************************************)
(* common.rs: varints of usize, a usize being 64 bits kept as four 16-bit  *)
(* limbs <<w3, w2, w1, w0>>, w0 the lowest.                                *)
(***************************************************************************)
\* usize::BITS
USIZE_BITS == 64

Zero64 == <<0, 0, 0, 0>>

\* n >> 7
Shr7_64(n) ==
    <<n[1] \div 128,
      (n[2] \div 128) + (n[1] % 128) * 512,
      (n[3] \div 128) + (n[2] % 128) * 512,
      (n[4] \div 128) + (n[3] % 128) * 512>>

\* n << 7, the bits shifted past bit 63 dropped
Shl7_64(n) ==
    <<((n[1] * 128) % 65536) + (n[2] \div 512),
      ((n[2] * 128) % 65536) + (n[3] \div 512),
      ((n[3] * 128) % 65536) + (n[4] \div 512),
      (n[4] * 128) % 65536>>

\* n << shift for the shifts decode_var makes: multiples of 7 below USIZE_BITS
RECURSIVE Shl64(_, _)
Shl64(n, shift) == IF shift < 7 THEN n ELSE Shl64(Shl7_64(n), shift - 7)

RECURSIVE BitOr(_, _)
BitOr(a, b) ==
    IF a = 0 THEN b
    ELSE IF b = 0 THEN a
    ELSE (IF a % 2 = 1 \/ b % 2 = 1 THEN 1 ELSE 0) + 2 * BitOr(a \div 2, b \div 2)

\* a | b
Or64(a, b) == [i \in 1..4 |-> BitOr(a[i], b[i])]

\* the loop of encode_var(n, dest) with i bytes written: what it returns
\* and what it leaves in dest
RECURSIVE EncodeVarLoop(_, _, _)
EncodeVarLoop(n, dest, i) ==
    LET low  == n[4] % 128
        rest == Shr7_64(n)
        byte == IF rest # Zero64 THEN BitOr(low, 128) ELSE low
    IN  IF i < Len(dest)
        THEN LET d == [dest EXCEPT ![i + 1] = byte]
             IN  IF rest = Zero64 THEN [written |-> i + 1, dest |-> d]
                 ELSE EncodeVarLoop(rest, d, i + 1)
        ELSE [written |-> 0, dest |-> dest]

encode_var(n, dest) == EncodeVarLoop(n, dest, 0)

\* required_space with n > 0x80 for n >= 0x80
RECURSIVE required_space_above(_)
required_space_above(n) ==
    IF n[1] # 0 \/ n[2] # 0 \/ n[3] # 0 \/ n[4] > 128
    THEN 1 + required_space_above(Shr7_64(n))
    ELSE 1

RECURSIVE required_space(_)
required_space(n) ==
    IF n[1] # 0 \/ n[2] # 0 \/ n[3] # 0 \/ n[4] >= 128
    THEN 1 + required_space(Shr7_64(n))
    ELSE 1

\* the loop of decode_var(src) at byte i: <<"Some", value, bytes read>> or
\* <<"None">>
RECURSIVE DecodeVarLoop(_, _, _, _)
DecodeVarLoop(src, i, acc, shift) ==
    IF i >= Len(src) THEN <<"None">>
    ELSE LET byte == src[i + 1]
             r    == Or64(acc, Shl64(<<0, 0, 0, byte % 128>>, shift))
         IN  IF byte < 128 THEN <<"Some", r, i + 1>>
             ELSE IF shift + 7 > USIZE_BITS THEN <<"None">>
             ELSE DecodeVarLoop(src, i + 1, r, shift + 7)

decode_var(src) == DecodeVarLoop(src, 0, Zero64, 0)

\* the longest destination buffer of the varint runs
MaxBuf == 11

\* 2^k and 2^k - 1 as a usize
Pow2_64(k) == [i \in 1..4 |-> IF 4 - i = k \div 16 THEN 2 ^ (k % 16) ELSE 0]

Pow2Less1_64(k) ==
    [i \in 1..4 |-> IF 4 - i < k \div 16 THEN 65535
                     ELSE IF 4 - i = k \div 16 THEN 2 ^ (k % 16) - 1
                     ELSE 0]

\* the numbers of the varint runs: the least number of each encoded length
\* (2^(7j)) and the one before it, the ends of a 32-bit word, usize::MAX and
\* two numbers of mixed bits
VarInputs ==
    {Pow2_64(7 * j) : j \in 0..9}
        \cup {Pow2Less1_64(7 * j) : j \in 0..9}
        \cup {Pow2_64(31), Pow2_64(32), Pow2Less1_64(32),
              <<65535, 65535, 65535, 65535>>, <<41602, 60120, 33526, 15224>>,
              <<0, 0, 1, 300>>}

\* encode_var(n, &mut dest) on a buffer of len bytes, each holding fill, and
\* required_space(n)
Call_encode_var(n, len, fill) ==
    /\ fnCall' = [fn |-> "encode_var", arg |-> n, len |-> len, fill |-> fill,
                  out |-> encode_var(n, [i \in 1..len |-> fill]),
                  space |-> required_space(n)]
    /\ UNCHANGED <<engineVars, logVars, tableVars, codecVars, listVars>>

\* decode_var(&dest[..written]) of the bytes an encode_var wrote
Call_decode_var ==
    /\ fnCall.fn = "encode_var"
    /\ fnCall.out.written > 0
    /\ fnCall' = [fn |-> "decode_var",
                  arg |-> SubSeq(fnCall.out.dest, 1, fnCall.out.written),
                  out |-> decode_var(SubSeq(fnCall.out.dest, 1, fnCall.out.written)),
                  of |-> fnCall.arg, space |-> fnCall.space]
    /\ UNCHANGED <<engineVars, logVars, tableVars, codecVars, listVars>>

\* decode_var(&dest) of the whole buffer an encode_var wrote into
Call_decode_var_buffer ==
    /\ fnCall.fn = "encode_var"
    /\ fnCall.out.written > 0
    /\ fnCall' = [fn |-> "decode_var", arg |-> fnCall.out.dest,
                  out |-> decode_var(fnCall.out.dest),
                  of |-> fnCall.arg, space |-> fnCall.space]
    /\ UNCHANGED <<engineVars, logVars, tableVars, codecVars, listVars>>

NextVar ==
    \/ \E n \in VarInputs : \E len \in 0..MaxBuf : \E fill \in {0, 255} :
           Call_encode_var(n, len, fill)
    \/ Call_decode_var
    \/ Call_decode_var_buffer

SpecVar == Init /\ [][NextVar]_vars

\* the 16-bit halves of the words of the masking runs: the ends of the
\* range, the values about bit 15, the halves of the constant and their
\* complements
MaskHalves == {0, 1, 2, 255, 256, 32767, 32768, 32769, 41602, 60120,
               65534, 65535, 5415, 23933}

MaskInputs == {<<hi, lo>> : hi \in MaskHalves, lo \in MaskHalves}

\* crc32c::mask(crc)
Call_mask(crc) ==
    /\ fnCall' = [fn |-> "mask", arg |-> crc, out |-> crc32c_mask(crc)]
    /\ UNCHANGED <<engineVars, logVars, tableVars, codecVars, listVars>>

\* crc32c::unmask of the word mask returned; of is the word that was masked
Call_unmask ==
    /\ fnCall.fn = "mask"
    /\ fnCall' = [fn |-> "unmask", arg |-> fnCall.out,
                  out |-> crc32c_unmask(fnCall.out), of |-> fnCall.arg]
    /\ UNCHANGED <<engineVars, logVars, tableVars, codecVars, listVars>>

NextMask ==
    \/ \E crc \in MaskInputs : Call_mask(crc)
    \/ Call_unmask

SpecMask == Init /\ [][NextMask]_vars

(***************************************************************************)
(* The skip list on its own.                                               *)
(***************************************************************************)
\* the most elements inserted in a run
MaxInserts == 3

\* the user keys of the runs
ListKeys == {<<1>>, <<1, 1>>, <<2>>}

\* list.insert(InternalKey::new(key, seq)), the sequence numbering the
\* inserts in the order they are made; random_level() is any level from 1
\* to MAX_LEVEL
List_insert(key, new_level) ==
    /\ Len(skiplist.nodes) < MaxInserts
    /\ skiplist' = SkipList_insert(skiplist,
                        [user_key |-> key,
                         sequence |-> Len(skiplist.nodes) + 1], new_level)
    /\ UNCHANGED <<engineVars, logVars, tableVars, codecVars, fnVars>>

\* list.get(key)
List_get(key) ==
    /\ fnCall' = [fn |-> "get", arg |-> key, out |-> SkipList_get(skiplist, key)]
    /\ UNCHANGED <<engineVars, logVars, tableVars, codecVars, listVars>>

NextList ==
    \/ \E key \in ListKeys : \E new_level \in 1..MAX_LEVEL :
           List_insert(key, new_level)
    \/ \E key \in ListKeys : List_get(key)

SpecList == Init /\ [][NextList]_vars

(***************************************************************************)
(* Properties.                                                             *)
(***************************************************************************)
\* the plain key->value map a history of applied mutations denotes, at key k
RECURSIVE MapView(_, _)
MapView(hist, k) ==
    IF hist = <<>> THEN <<"None">>
    ELSE LET e == hist[Len(hist)].entry
         IN  IF e.key = k
             THEN IF e.tag = "Put" THEN <<"Some", e.value>> ELSE <<"None">>
             ELSE MapView(SubSeq(hist, 1, Len(hist) - 1), k)

\* thread t is in no call, or in one that cannot go on
Stopped(t) == pc[t] \in {"idle", "blocked", "panicked"}

\* what a get(k) issued now meets: a panic on the poisoned mutex, a wait for
\* the held mutex, or its result
GetOutcome(k) ==
    IF memPoisoned THEN <<"Panic">>
    ELSE IF memLock # 0 THEN <<"Blocked">>
    ELSE SaturnDB_get(k)

\* the flushed maps that hold key k, by stack position
Holders(k) ==
    {i \in 1..Len(life.flushed) :
        k \in DOMAIN life.flushed[i].data \cup DOMAIN life.flushed[i].tombstones}

SetMax(S) == CHOOSE x \in S : \A y \in S : y <= x

\* newest-first resolution of key k over the memtable and the flushed maps
Resolve(k) ==
    IF k \in DOMAIN memtable.map THEN <<"Some", memtable.map[k][1]>>
    ELSE IF k \in DOMAIN memtable.tombstones THEN <<"None">>
    ELSE IF Holders(k) = {} THEN <<"None">>
    ELSE LET f == life.flushed[SetMax(Holders(k))]
         IN  IF k \in DOMAIN f.tombstones THEN <<"None">>
             ELSE <<"Some", f.data[k][1]>>

\* C1: an engine that started in step with its log (opened on an empty log,
\* or recovered first) and ran put/delete one at a time without a flush is
\* dropped; a new engine on the same log that has just run recover answers
\* get(k), for every key, as the old engine did before the drop.
C1_RecoveryRoundTrip ==
    (prev.valid /\ life.calls = 1 /\ life.firstRecover /\ pc[1] = "idle")
        => \A k \in Keys : SaturnDB_get(k) = prev.view[k]

\* C2: whatever was appended to the log file, by this engine or by an
\* earlier one on the same path, is what iterating the file from offset 0
\* yields, in order: a record appended after reopening lands after the bytes
\* already in the file.
C2_AppendAfterReopen == WriteAheadLogIter(walFile) = everLogged

\* C3: with no flush begun and no recover run, get(k) is the value of the
\* latest put(k,v) unless a delete(k) came after it, and not_found otherwise;
\* and a get that has returned returned exactly that.
C3_MemtableVisibility ==
    (life.noflush /\ life.recovers = 0)
        => /\ \A k \in Keys : SaturnDB_get(k) = MapView(applied, k)
           /\ (call[1].op = "get" /\ pc[1] = "idle")
                  => result[1] = MapView(applied, call[1].key)

\* C3 happens: delete(k) then put(k,v) left k in both maps, and get(k)
\* returned v
C3_Witness ==
    \E k \in Keys :
        /\ life.noflush /\ life.recovers = 0
        /\ k \in DOMAIN memtable.map /\ k \in DOMAIN memtable.tombstones
        /\ call[1].op = "get" /\ call[1].key = k /\ pc[1] = "idle"
        /\ result[1] = <<"Some", memtable.map[k][1]>>

\* C4: after any put/delete calls of one client, those that fill the
\* memtable included, a get(k) made once the client is out of its call
\* returns the value of the latest put(k,v) not followed by delete(k), and
\* not_found otherwise.
C4_RefinesMap ==
    (Stopped(1) /\ life.recovers = 0)
        => \A k \in Keys : GetOutcome(k) = MapView(applied, k)

\* C5: no put or delete call ends up waiting for ever on a lock or panicking:
\* each call returns.
C5_CallsReturn == \A t \in Threads : pc[t] \notin {"blocked", "panicked"}

\* C6: a thread on the flush path (about to lock the memtable to drain it,
\* naming the file, writing it, or pushing the handle) does not hold the
\* memtable lock, and nobody holds it for that thread.
C6_NoLockOnFlushPath ==
    \A t \in Threads :
        pc[t] \in {"flush_call", "flush_path", "flush_write", "flush_push"}
            => memLock # t

\* C7: mutations of one key reach the memtable in the order of their log
\* records, so that once every writer has returned (and no flush has begun)
\* the memtable holds, for every key, what the last log record for the key
\* dictates.
C7_WriterOrder ==
    ((\A t \in Threads : pc[t] = "idle") /\ life.noflush)
        => \A k \in Keys : SaturnDB_get(k) = MapView(logged, k)

\* C8: get(k) is decided by the first source that holds k: the memtable's
\* live value, the memtable's tombstone, then the flushed maps from the
\* newest stack position down (a Put gives its value, a Delete not_found);
\* and a get that has returned returned exactly that.
C8_NewestFirst ==
    /\ \A k \in Keys : SaturnDB_get(k) = Resolve(k)
    /\ (call[1].op = "get" /\ pc[1] = "idle") => result[1] = Resolve(call[1].key)

\* C8 happens: two SSTables hold different values of k, the memtable does
\* not know k, and get(k) returned the newer value
C8_Witness ==
    \E k \in Keys :
        /\ Len(life.flushed) = 2
        /\ k \in DOMAIN life.flushed[1].data /\ k \in DOMAIN life.flushed[2].data
        /\ k \notin DOMAIN life.flushed[2].tombstones
        /\ life.flushed[1].data[k][1] # life.flushed[2].data[k][1]
        /\ k \notin DOMAIN memtable.map /\ k \notin DOMAIN memtable.tombstones
        /\ call[1].op = "get" /\ call[1].key = k /\ pc[1] = "idle"
        /\ result[1] = <<"Some", life.flushed[2].data[k][1]>>

\* C9: the step in which a put or delete meets a failed log append leaves the
\* memtable (both maps and the sequence counter) and the SSTable stack as
\* they were, and the call has returned the error.
C9_FailedAppendAborts ==
    [][\A t \in Threads :
          (nFaults' = nFaults + 1 /\ call'[t] # call[t]
              /\ call'[t].op \in {"put", "delete"})
            => /\ memtable' = memtable
               /\ sstables' = sstables
               /\ result'[t] = Err
               /\ pc'[t] = "idle"]_vars

\* C9 happens: a put or delete returned the error of a failed append while
\* the memtable held earlier mutations
C9_Witness ==
    /\ nFaults = 1
    /\ call[1].op \in {"put", "delete"} /\ pc[1] = "idle" /\ result[1] = Err
    /\ memtable.map # EmptyMap
    /\ memtable.current_sequence_number > 0

\* C10: a put or delete that found the memtable full and went into the flush
\* has stopped running only with the memtable drained (both maps empty),
\* whether the SSTable was written or its write failed.
C10_FlushDrains ==
    \A t \in Threads :
        (call[t].op \in {"put", "delete"} /\ pc[t] \in {"blocked", "panicked"})
            => (memtable.map = EmptyMap /\ memtable.tombstones = EmptyMap)

\* the records among the returns of read_record
RECURSIVE Records(_)
Records(out) ==
    IF out = <<>> THEN <<>>
    ELSE IF Head(out)[1] = "rec" THEN <<Head(out)[2]>> \o Records(Tail(out))
    ELSE Records(Tail(out))

IsPrefix(a, b) == Len(a) <= Len(b) /\ a = SubSeq(b, 1, Len(a))

\* C11: a reader started at offset 0 on a stream written by add_record
\* returns the payloads written, in order (what it has returned so far is a
\* prefix of them), returns false only after the last of them, and its
\* reporter is handed no corruption.
C11_FramingRoundTrip ==
    /\ phase \in {"read", "done"} =>
          /\ IsPrefix(Records(readOut), written)
          /\ reader.drops = <<>>
    /\ phase = "done" =>
          /\ Records(readOut) = written
          /\ readOut = [i \in 1..Len(written) |-> <<"rec", written[i]>>] \o <<<<"end">>>>

\* C11 happens: three records, among them an empty one and one of more than
\* two blocks after a padded trailer, were written and read back to the end
C11_Witness ==
    /\ phase = "done"
    /\ Len(written) = 3
    /\ written[1] = Payload(BLOCK_SIZE - HEADER_SIZE - 5)
    /\ written[2] = Payload(2 * BLOCK_SIZE + 8)
    /\ written[3] = Payload(0)
    /\ Len(readOut) = 4

\* the number of logical records whose every physical record lies within the
\* first n bytes of the stream
Contained(n) ==
    Cardinality({i \in 1..Len(written) :
                    \A j \in 1..Len(layout) : layout[j].rec = i => layout[j].to <= n})

\* C12: after the log is cut at an arbitrary byte, a reader started at offset
\* 0 returns exactly the logical records wholly contained in what is left, in
\* order, then returns false; it returns no partial record and the reporter
\* receives no corruption.
C12_TornTail ==
    phase \in {"read", "done"} =>
        LET whole == SubSeq(written, 1, Contained(Len(stream.dest)))
        IN  /\ IsPrefix(Records(readOut), whole)
            /\ reader.drops = <<>>
            /\ phase = "done" =>
                   readOut = [i \in 1..Len(whole) |-> <<"rec", whole[i]>>] \o <<<<"end">>>>

\* a log of three records cut inside the second fragment of its last record:
\* the reader has returned the first two records and then false
C12_Witness ==
    /\ phase = "done"
    /\ Len(written) = 3
    /\ Len(written[3]) = BLOCK_SIZE + 4
    /\ Contained(Len(stream.dest)) = 2
    /\ \E j \in 1..Len(layout) :
           /\ layout[j].rec = 3 /\ layout[j].typ = RT_Last
           /\ layout[j].from + HEADER_SIZE < Len(stream.dest)
           /\ Len(stream.dest) < layout[j].to
    /\ Len(readOut) = 3

\* the offset lies inside a physical record of type First or Middle
InsideFragment(off) ==
    \E j \in 1..Len(layout) :
        /\ layout[j].typ \in {RT_First, RT_Middle}
        /\ layout[j].from < off /\ off < layout[j].to

\* the logical records whose first physical record starts strictly after off
StartsAfter(off) ==
    {layout[j].rec : j \in {x \in 1..Len(layout) :
                              /\ layout[x].typ \in {RT_Full, RT_First}
                              /\ layout[x].from > off}}

\* what the first read_record of a reader started at off is to return
FirstAfter(off) ==
    IF StartsAfter(off) = {} THEN <<"end">>
    ELSE <<"rec", written[CHOOSE i \in StartsAfter(off) : \A x \in StartsAfter(off) : i <= x]>>

\* C13: a reader started at an offset inside a First or Middle physical record
\* returns, as its first record, the first logical record that starts strictly
\* after that offset (or false when there is none), and the reporter receives
\* no corruption for the fragments skipped.
C13_Resync ==
    (phase \in {"read", "done"} /\ InsideFragment(reader.initial_offset) /\ readOut # <<>>)
        => /\ readOut[1] = FirstAfter(reader.initial_offset)
           /\ reader.drops = <<>>

\* a reader started inside the Middle fragment of the first record has
\* returned the second record
C13_Witness ==
    /\ Len(written) = 2
    /\ Len(written[1]) = 2 * BLOCK_SIZE + 8
    /\ \E j \in 1..Len(layout) :
           /\ layout[j].typ = RT_Middle
           /\ layout[j].from < reader.initial_offset
           /\ reader.initial_offset < layout[j].to
    /\ readOut = <<<<"rec", written[2]>>>>

\* s without its i-th element
RemoveAt(s, i) == [k \in 1..(Len(s) - 1) |-> IF k < i THEN s[k] ELSE s[k + 1]]

\* a is b with some elements left out
RECURSIVE IsSubseq(_, _)
IsSubseq(a, b) ==
    IF a = <<>> THEN TRUE
    ELSE IF b = <<>> THEN FALSE
    ELSE IF Head(a) = Head(b) THEN IsSubseq(Tail(a), Tail(b))
    ELSE IsSubseq(a, Tail(b))

\* the physical records whose stored CRC, type byte or payload holds the
\* damaged byte (the two length bytes are left to the framing checks)
DamagedRecords ==
    {j \in 1..Len(layout) :
        /\ layout[j].from <= damaged /\ damaged < layout[j].to
        /\ damaged - layout[j].from \notin {4, 5}}

\* the reporter has been handed a "checksum mismatch"
ChecksumReported ==
    \E d \in 1..Len(reader.drops) : reader.drops[d][2] = "checksum mismatch"

\* the damaged physical record now reads as a Zero-typed record of length 0
ReadsAsZeroPadding(j) ==
    /\ stream.dest[layout[j].from + 7] = RT_Zero
    /\ layout[j].to = layout[j].from + HEADER_SIZE

\* no record returned holds bytes of the damaged physical record j: what has
\* been returned are records as written, in order, the damaged one not among
\* them
NeverReturned(j) == IsSubseq(Records(readOut), RemoveAt(written, layout[j].rec))

\* C14 as stated: with checksumming on, a physical record whose stored CRC
\* does not match the CRC of its type byte and payload is never returned,
\* and once the reader has passed it a "checksum mismatch" has been reported
\* whenever the record lies at or past the initial offset.
C14_AsStated ==
    \A j \in DamagedRecords :
        phase \in {"read", "done"} =>
            /\ NeverReturned(j)
            /\ (phase = "done" /\ layout[j].from >= reader.initial_offset)
                   => ChecksumReported

\* C14: with checksumming on, a physical record whose stored CRC does not
\* match the CRC of its type byte and payload is never returned; once the
\* reader has passed it a "checksum mismatch" has been reported whenever the
\* record lies at or past the initial offset, unless the record reads as
\* type Zero with length 0, which is discarded before its checksum is looked
\* at and without a report.
C14_ChecksumProtection ==
    \A j \in DamagedRecords :
        phase \in {"read", "done"} =>
            /\ NeverReturned(j)
            /\ (phase = "done" /\ layout[j].from >= reader.initial_offset)
                   => IF ReadsAsZeroPadding(j) THEN ~ChecksumReported
                      ELSE ChecksumReported

\* a payload byte of the second of three records was changed; the reader,
\* started at offset 0, returned the first record, reported the mismatch and
\* reached the end
C14_Witness ==
    /\ phase = "done"
    /\ Len(written) = 3
    /\ reader.initial_offset = 0
    /\ \E j \in DamagedRecords :
           /\ layout[j].rec = 2
           /\ damaged >= layout[j].from + HEADER_SIZE
    /\ ChecksumReported
    /\ Len(readOut) >= 2
    /\ readOut[1] = <<"rec", written[1]>>

\* C15: for the SSTable that SSTable::write(live, tombstones) produced,
\* get(k) returns the written value when k is a live key and not a tombstone
\* key, none when k is a tombstone key or in neither map; and the Bloom
\* filter contains every key of either map.
C15_NoFalseNegative ==
    tblIn.written =>
        /\ \A k \in DOMAIN tblIn.data \cup DOMAIN tblIn.tombstones :
               BloomFilter_contains(tblOut.sstable.bloom_filter, k)
        /\ tblGot.out # <<"NotCalled">> =>
               LET k == tblGot.key
               IN  IF k \in DOMAIN tblIn.tombstones THEN tblGot.out = <<"None">>
                   ELSE IF k \in DOMAIN tblIn.data
                   THEN tblGot.out = <<"Some", tblIn.data[k][1]>>
                   ELSE tblGot.out = <<"None">>

\* get returned the value of the live empty key from a table that also holds
\* a tombstone and whose Bloom filter answers "maybe" for the absent key <<1, 2>>
C15_Witness ==
    /\ tblIn.written
    /\ DOMAIN tblIn.data = {<<>>, <<3>>}
    /\ DOMAIN tblIn.tombstones = {<<33>>}
    /\ BloomFilter_contains(tblOut.sstable.bloom_filter, <<1, 2>>)
    /\ tblGot = [key |-> <<>>, out |-> <<"Some", tblIn.data[<<>>][1]>>]

\* C16: decode_entry(encode_entry(e)) is e for every entry, empty keys and
\* values included; the entries appended to a log that started empty are
\* what WriteAheadLog::iter yields, in the same order, before it ends; and
\* an empty log yields nothing.
C16_CodecRoundTrip ==
    /\ codecTrip.called => codecTrip.back = [ok |-> TRUE, entry |-> codecTrip.entry]
    /\ codecOut[1] = "Iter" => codecOut[2] = codecIn

\* an entry with an empty key and an empty value came back from the codec,
\* and the iterator yielded three appended entries, two of them with the long
\* value, the second one split over two blocks
C16_Witness ==
    /\ codecTrip.called
    /\ codecTrip.entry = PutEntry(<<>>, <<>>)
    /\ Len(codecIn) = 3
    /\ codecIn[1].tag = "Put" /\ Len(codecIn[1].value) = BLOCK_SIZE \div 2
    /\ codecIn[2].tag = "Put" /\ Len(codecIn[2].value) = BLOCK_SIZE \div 2
    /\ codecIn[3] = DeleteEntry(<<>>)
    /\ Len(codecLog.file) > BLOCK_SIZE
    /\ codecOut = <<"Iter", codecIn>>

\* C17: the maps MemTable::flush hands to flush_memtable never hold the same
\* key both as a live entry and as a tombstone.
C17_DrainedDisjoint ==
    \A t \in Threads :
        pc[t] \in {"flush_path", "flush_write", "flush_push"} =>
            DOMAIN flushLocal[t].data \cap DOMAIN flushLocal[t].tombstones = {}

\* the entries of the records the log file holds
InLog == LET it == WriteAheadLogIter(walFile) IN {it[i] : i \in 1..Len(it)}

\* the mutations a memtable, or the maps drained from one, hold
MutationsOf(data, tombstones) ==
    {PutEntry(k, data[k][1]) : k \in DOMAIN data}
        \cup {DeleteEntry(k) : k \in DOMAIN tombstones}

\* the file of the handle has been written: every key of its index has its
\* entry at the offset the index gives
FileWritten(sst) ==
    /\ sst.file_path \in DOMAIN sstFiles
    /\ \A k \in DOMAIN sst.index :
           LET e == read_entry(sstFiles[sst.file_path], sst.index[k])
           IN  e.ok /\ e.entry.key = k

\* the mutations an SSTable whose file is written holds
EntriesOf(sst) ==
    {read_entry(sstFiles[sst.file_path], sst.index[k]).entry : k \in DOMAIN sst.index}

\* C18: with one writer, the log record of a put or delete is appended before
\* the memtable is mutated, a flush drains only mutations already made, and an
\* SSTable is in the stack only once its file is written; so every mutation
\* held by the memtable, by a flush in progress or by an SSTable of the stack
\* has its record in the log.
C18_WriteAhead ==
    /\ \A t \in Threads :
           pc[t] \in {"put_mem", "delete_mem"} =>
               /\ logged # <<>> /\ logged[Len(logged)].id = call[t].id
               /\ \A i \in 1..Len(applied) : applied[i].id # call[t].id
    /\ \A i \in 1..Len(applied) : \E j \in 1..Len(logged) : logged[j] = applied[i]
    /\ MutationsOf(memtable.map, memtable.tombstones) \subseteq InLog
    /\ \A t \in Threads :
           pc[t] \in {"flush_path", "flush_write", "flush_push"} =>
               MutationsOf(flushLocal[t].data, flushLocal[t].tombstones) \subseteq InLog
    /\ \A i \in 1..Len(sstables) :
           /\ FileWritten(sstables[i])
           /\ EntriesOf(sstables[i]) \subseteq InLog

\* a put was logged, applied and drained, its SSTable written and pushed; a
\* later delete is logged and not yet applied
C18_Witness ==
    /\ Len(sstables) = 1
    /\ PutEntry(<<1>>, <<7>>) \in EntriesOf(sstables[1])
    /\ pc[1] = "delete_mem"
    /\ call[1].key = <<1>>
    /\ memtable.tombstones = EmptyMap
    /\ DeleteEntry(<<1>>) \in InLog

\* C19: a get(k) that starts after the client's mutations of k have returned
\* returns the value of the latest put(k, v) (not_found after a delete or
\* when there was none), also while another thread's flush has drained the
\* memtable and not yet pushed its SSTable.
C19_NoLostRead ==
    (call[1].op = "get" /\ pc[1] = "idle")
        => result[1] = MapView(applied, call[1].key)

\* the sequence numbers of the mutations of a drained memtable
SeqsOf(f) ==
    {f.data[k][2] : k \in DOMAIN f.data} \cup {f.tombstones[k] : k \in DOMAIN f.tombstones}

\* C20: the SSTables of the stack are in the order in which their contents
\* were drained from the memtable: every mutation of a lower stack position
\* was made (has a smaller sequence number) before every mutation of a
\* higher one.
C20_StackOrder ==
    \A i, j \in 1..Len(life.flushed) :
        i < j => \A a \in SeqsOf(life.flushed[i]), b \in SeqsOf(life.flushed[j]) : a < b

\* the paths of the SSTables whose file has been written: those of the stack
\* and those a flush has written and not yet pushed
WrittenPaths(t) ==
    {sstables[i].file_path : i \in 1..Len(sstables)}
        \cup {flushLocal[o].sstable_path : o \in {x \in Threads \ {t} : pc[x] = "flush_push"}}

\* C21: the SSTables of the stack have pairwise distinct file paths, and a
\* flush about to create its file (File::create truncates) has not named the
\* path of an SSTable already written.
C21_UniquePaths ==
    /\ \A i, j \in 1..Len(sstables) :
           i # j => sstables[i].file_path # sstables[j].file_path
    /\ \A t \in Threads :
           pc[t] = "flush_write" => flushLocal[t].sstable_path \notin WrittenPaths(t)

\* C22: in every step of put, delete, get, recover and flush the SSTable
\* stack is unchanged or grows by exactly one handle at its newest end; no
\* entry is removed, replaced or moved.
C22_StackAppendOnly ==
    [][\/ sstables' = sstables
       \/ /\ Len(sstables') = Len(sstables) + 1
          /\ SubSeq(sstables', 1, Len(sstables)) = sstables]_vars

\* two flushes have pushed their handles, the second above the first, and a
\* recover has run since with both still in place
C22_Witness ==
    /\ Len(sstables) = 2
    /\ Len(life.flushed) = 2
    /\ sstables[1].file_path = 0 /\ sstables[2].file_path = 1
    /\ sstables[1].index # sstables[2].index
    /\ call[1].op = "recover" /\ pc[1] = "idle"

\* C23: whenever no put, delete or recover call is in progress (every call
\* has returned or has ended in a panic), the memtable holds fewer entries,
\* live and tombstones together, than the flush threshold.
C23_SizeBound ==
    (\A t \in Threads : pc[t] \in {"idle", "panicked"}) => ~MemTable_is_full(memtable)

\* a step in which some thread calls recover
RecoverStep == \E t \in Threads : call'[t].op = "recover" /\ call'[t].id # call[t].id

IsMutation(e) == e.tag \in {"Put", "Delete"}

\* the mutations WriteAheadLog::iter decodes from a log file
Mutations(file) == SelectSeq(WriteAheadLogIter(file), IsMutation)

\* C24: recover changes only the memtable. With the memtable's counter at c
\* before the call, the i-th mutation decoded from the log gets sequence
\* number c + i as a live put or delete would: a key's live entry is that of
\* its last mutation if it is a put and is absent if it is a delete, its
\* tombstone is that of its last delete, keys the log does not mention keep
\* what they had. The bytes of the log file, the writer's position, the
\* SSTable stack and the SSTable files are unchanged.
C24_RecoverFrame ==
    [][RecoverStep =>
          LET es   == Mutations(walFile)
              base == memtable.current_sequence_number
              idx(k)  == {i \in 1..Len(es) : es[i].key = k}
              dels(k) == {i \in idx(k) : es[i].tag = "Delete"}
          IN  /\ memtable'.current_sequence_number = base + Len(es)
              /\ \A k \in Keys :
                    /\ IF idx(k) = {}
                       THEN /\ (k \in DOMAIN memtable'.map) = (k \in DOMAIN memtable.map)
                            /\ k \in DOMAIN memtable.map => memtable'.map[k] = memtable.map[k]
                       ELSE LET i == SetMax(idx(k))
                            IN  IF es[i].tag = "Put"
                                THEN /\ k \in DOMAIN memtable'.map
                                     /\ memtable'.map[k] = <<es[i].value, base + i>>
                                ELSE k \notin DOMAIN memtable'.map
                    /\ IF dels(k) = {}
                       THEN /\ (k \in DOMAIN memtable'.tombstones)
                                   = (k \in DOMAIN memtable.tombstones)
                            /\ k \in DOMAIN memtable.tombstones
                                   => memtable'.tombstones[k] = memtable.tombstones[k]
                       ELSE /\ k \in DOMAIN memtable'.tombstones
                            /\ memtable'.tombstones[k] = base + SetMax(dels(k))
              /\ DOMAIN memtable'.map \subseteq Keys
              /\ DOMAIN memtable'.tombstones \subseteq Keys
              /\ walFile' = walFile
              /\ writer' = writer
              /\ sstables' = sstables
              /\ sstFiles' = sstFiles]_vars

\* a new engine has replayed a log of at least three mutations into an
\* empty memtable: it holds a live entry and a tombstone numbered by their
\* positions in the log, and the log is as it was
C24_Witness ==
    /\ nRestarts >= 1
    /\ call[1].op = "recover" /\ pc[1] = "idle" /\ life.firstRecover /\ life.calls = 1
    /\ Len(Mutations(walFile)) >= 3
    /\ memtable.current_sequence_number = Len(Mutations(walFile))
    /\ memtable.map # EmptyMap
    /\ memtable.tombstones # EmptyMap

\* what a memtable shows: the value of each live key and the tombstoned keys
Visible(mt) ==
    [live |-> [k \in DOMAIN mt.map |-> mt.map[k][1]], dead |-> DOMAIN mt.tombstones]

\* C25: a recover called right after a recover on the same log, or on an
\* engine whose memtable shows what a replay of the log into an empty
\* memtable shows, leaves the live keys with their values, the tombstoned
\* keys and the result of get(k) for every key as they were after the first
\* call; the sequence counter goes on counting.
C25_RecoverIdempotent ==
    [][\A t \in Threads :
          /\ call'[t].op = "recover" /\ call'[t].id # call[t].id
          /\ \/ call[t].op = "recover"
             \/ Visible(memtable) = Visible(Replay(MemTable_new, WriteAheadLogIter(walFile)))
          => /\ Visible(memtable') = Visible(memtable)
             /\ \A k \in Keys : SaturnDB_get(k)' = SaturnDB_get(k)
             /\ memtable'.current_sequence_number
                   = memtable.current_sequence_number + Len(Mutations(walFile))]_vars

\* an engine has logged and applied a put and a delete and has then called
\* recover twice in a row: each call numbered the entries of the log anew,
\* and the memtable shows a live key and a tombstone
C25_Witness ==
    /\ nRestarts = 0
    /\ call[1].op = "recover" /\ pc[1] = "idle" /\ life.recovers = 2
    /\ Len(Mutations(walFile)) >= 2
    /\ Len(applied) = Len(Mutations(walFile))
    /\ memtable.current_sequence_number = 3 * Len(Mutations(walFile))
    /\ memtable.map # EmptyMap
    /\ memtable.tombstones # EmptyMap

\* C26: the step in which delete(k) mutates the memtable leaves k out of the
\* live map and in the tombstone map under the sequence number assigned by
\* this call, whatever the memtable held; every other key has in both maps
\* what it had.
C26_DeleteInvariant ==
    [][\A t \in Threads :
          pc[t] = "delete_mem" /\ pc'[t] # "delete_mem"
          => LET k == call[t].key
             IN  /\ k \notin DOMAIN memtable'.map
                 /\ k \in DOMAIN memtable'.tombstones
                 /\ memtable'.current_sequence_number = memtable.current_sequence_number + 1
                 /\ memtable'.tombstones[k] = memtable'.current_sequence_number
                 /\ DOMAIN memtable'.map = DOMAIN memtable.map \ {k}
                 /\ DOMAIN memtable'.tombstones = DOMAIN memtable.tombstones \cup {k}
                 /\ \A o \in DOMAIN memtable'.map : memtable'.map[o] = memtable.map[o]
                 /\ \A o \in DOMAIN memtable.tombstones \ {k} :
                        memtable'.tombstones[o] = memtable.tombstones[o]]_vars

\* a key that was live, and had a tombstone from an earlier delete, has just
\* been deleted again: it is out of the live map and its tombstone carries
\* the newest sequence number
C26_Witness ==
    /\ call[1].op = "delete" /\ pc[1] = "idle"
    /\ Len(applied) >= 3
    /\ applied[Len(applied)].entry = DeleteEntry(call[1].key)
    /\ applied[Len(applied) - 1].entry.tag = "Put"
    /\ applied[Len(applied) - 1].entry.key = call[1].key
    /\ applied[Len(applied) - 2].entry = DeleteEntry(call[1].key)
    /\ call[1].key \notin DOMAIN memtable.map
    /\ call[1].key \in DOMAIN memtable.tombstones
    /\ memtable.tombstones[call[1].key] = memtable.current_sequence_number
    /\ memtable.current_sequence_number >= 3

\* the sequence numbers a memtable holds
SeqsIn(mt) ==
    {mt.map[k][2] : k \in DOMAIN mt.map} \cup {mt.tombstones[k] : k \in DOMAIN mt.tombstones}

\* the sequence numbers handed out so far by the engine's memtable: those it
\* holds, those of a flush in progress and those of the flushed maps
SeqsGiven ==
    SeqsIn(memtable)
        \cup UNION {SeqsOf(flushLocal[t]) : t \in {o \in Threads : pc[o] \in
                        {"flush_path", "flush_write", "flush_push"}}}
        \cup UNION {SeqsOf(life.flushed[i]) : i \in 1..Len(life.flushed)}

\* C27: in one memtable instance the sequence counter never decreases; the
\* step in which a put or a delete mutates the memtable increments it by
\* exactly one and stores the new value with the entry, which is larger than
\* every sequence number given before, also those drained by a flush; the
\* drain of a flush leaves the counter as it is.
C27_SequenceIncreasing ==
    [][/\ memtable'.current_sequence_number >= memtable.current_sequence_number
       /\ \A t \in Threads :
             /\ pc[t] = "put_mem" /\ pc'[t] # "put_mem"
                => /\ memtable'.current_sequence_number
                          = memtable.current_sequence_number + 1
                   /\ memtable'.map[call[t].key]
                          = <<call[t].value, memtable'.current_sequence_number>>
                   /\ \A s \in SeqsGiven : s < memtable'.current_sequence_number
             /\ pc[t] = "delete_mem" /\ pc'[t] # "delete_mem"
                => /\ memtable'.current_sequence_number
                          = memtable.current_sequence_number + 1
                   /\ memtable'.tombstones[call[t].key]
                          = memtable'.current_sequence_number
                   /\ \A s \in SeqsGiven : s < memtable'.current_sequence_number
             /\ pc[t] = "idle" /\ pc'[t] = "flush_path"
                => memtable'.current_sequence_number = memtable.current_sequence_number
       /\ Cardinality(SeqsIn(memtable'))
             = Cardinality(DOMAIN memtable'.map) + Cardinality(DOMAIN memtable'.tombstones)]_vars

\* a put made after a flush has drained and pushed an earlier mutation: its
\* entry carries the counter's value, above the sequence number in the
\* flushed map
C27_Witness ==
    /\ call[1].op = "put" /\ pc[1] = "idle"
    /\ Len(life.flushed) >= 1
    /\ SeqsOf(life.flushed[1]) # {}
    /\ call[1].key \in DOMAIN memtable.map
    /\ memtable.map[call[1].key][2] = memtable.current_sequence_number
    /\ \A s \in SeqsOf(life.flushed[1]) : s < memtable.current_sequence_number

\* C28: the drain step of a flush hands out exactly the live map and the
\* tombstone map the memtable held, leaves both maps of the memtable empty
\* and leaves its sequence counter unchanged.
C28_DrainExact ==
    [][\A t \in Threads :
          pc[t] = "idle" /\ pc'[t] = "flush_path"
          => /\ flushLocal'[t].data = memtable.map
             /\ flushLocal'[t].tombstones = memtable.tombstones
             /\ memtable'.map = EmptyMap
             /\ memtable'.tombstones = EmptyMap
             /\ memtable'.current_sequence_number = memtable.current_sequence_number]_vars

\* a flush has just drained a memtable that held a live entry and a
\* tombstone: the flush holds both, the memtable is empty and its counter
\* stands where the mutations left it
C28_Witness ==
    /\ pc[1] = "flush_path"
    /\ flushLocal[1].data # EmptyMap
    /\ flushLocal[1].tombstones # EmptyMap
    /\ memtable.map = EmptyMap
    /\ memtable.tombstones = EmptyMap
    /\ memtable.current_sequence_number >= 2
    /\ \A s \in SeqsOf(flushLocal[1]) : s <= memtable.current_sequence_number

\* the number of entries, live and tombstones together, of a memtable
Size(mt) == Cardinality(DOMAIN mt.map) + Cardinality(DOMAIN mt.tombstones)

\* C29: is_full is true exactly when the memtable holds at least the
\* threshold number of entries, live and tombstones together; the step in
\* which a put or a delete mutates the memtable goes on to flush_memtable
\* exactly when the memtable then holds at least that many, so no call that
\* leaves it below the threshold enters the flush path.
C29_FullAtThreshold ==
    [][/\ MemTable_is_full(memtable') <=> Size(memtable') >= FlushThreshold
       /\ \A t \in Threads :
             pc[t] \in {"put_mem", "delete_mem"} /\ pc'[t] # pc[t]
             => /\ pc'[t] = "flush_call" <=> Size(memtable') >= FlushThreshold
                /\ pc'[t] = "idle" <=> Size(memtable') < FlushThreshold]_vars

\* the mutations before it have returned with the memtable below the
\* threshold, and the one that brought it to the threshold has entered the
\* flush path
C29_Witness ==
    /\ pc[1] = "flush_call"
    /\ Size(memtable) = FlushThreshold
    /\ Len(applied) = FlushThreshold
    /\ memtable.current_sequence_number = FlushThreshold
    /\ life.noflush = FALSE

\* the bytes a physical record leaves in its block
LeftAfter(f) == (BLOCK_SIZE - (f.to % BLOCK_SIZE)) % BLOCK_SIZE

\* C30: in a stream written from its start by add_record, every physical
\* record (header and fragment) lies in one block and is where the bytes of
\* the stream show its length and type; a physical record that leaves fewer
\* than HEADER_SIZE bytes in its block is followed by zeros up to the block
\* boundary, where the next physical record begins, and any other is
\* followed at once by the next; the zeros are written by the add_record
\* that follows, so the stream ends with its last physical record; the
\* writer's block_offset stays within 0..BLOCK_SIZE and is the stream's
\* length modulo the block size.
C30_TrailerPadding ==
    phase = "write" =>
        /\ stream.block_offset \in 0..BLOCK_SIZE
        /\ stream.block_offset % BLOCK_SIZE = Len(stream.dest) % BLOCK_SIZE
        /\ stream.pos = Len(stream.dest)
        /\ \A i \in 1..Len(layout) :
              LET f == layout[i]
              IN  /\ f.to - f.from >= HEADER_SIZE
                  /\ f.from \div BLOCK_SIZE = (f.to - 1) \div BLOCK_SIZE
                  /\ f.to <= Len(stream.dest)
                  /\ stream.dest[f.from + 5] + 256 * stream.dest[f.from + 6]
                         = f.to - f.from - HEADER_SIZE
                  /\ stream.dest[f.from + 7] = f.typ
                  /\ IF i = Len(layout) THEN f.to = Len(stream.dest)
                     ELSE IF LeftAfter(f) < HEADER_SIZE
                     THEN /\ layout[i + 1].from = f.to + LeftAfter(f)
                          /\ layout[i + 1].from % BLOCK_SIZE = 0
                          /\ \A p \in (f.to + 1)..layout[i + 1].from : stream.dest[p] = 0
                     ELSE layout[i + 1].from = f.to
        /\ (layout = <<>>) = (stream.dest = <<>>)
        /\ layout # <<>> => layout[1].from = 0

\* a record has left between one and six bytes in its block and another
\* record has been added: zeros fill the block and the next physical record
\* begins at the boundary; elsewhere a record has filled its block exactly
C30_Witness ==
    /\ phase = "write"
    /\ \E i \in 1..(Len(layout) - 1) :
          /\ LeftAfter(layout[i]) \in 1..(HEADER_SIZE - 1)
          /\ layout[i + 1].from = layout[i].to + LeftAfter(layout[i])
          /\ layout[i + 1].rec = layout[i].rec + 1
          /\ stream.dest[layout[i].to + 1] = 0
    /\ stream.block_offset = BLOCK_SIZE

\* the positions in the stream's list of physical records of those emitted
\* for logical record r
FragsOf(r) == {i \in 1..Len(layout) : layout[i].rec = r}

SetMin(S) == CHOOSE x \in S : \A y \in S : x <= y

\* what the bytes of the stream say of the physical record at position i:
\* its type byte, its length field and the payload after its header
TypeAt(i) == stream.dest[layout[i].from + 7]
LengthAt(i) == stream.dest[layout[i].from + 5] + 256 * stream.dest[layout[i].from + 6]
PayloadAt(i) == Slice(stream.dest, layout[i].from + HEADER_SIZE,
                      layout[i].from + HEADER_SIZE + LengthAt(i))

\* the fragment payloads of positions lo..i put together
RECURSIVE Joined(_, _)
Joined(lo, i) == IF i < lo THEN <<>> ELSE Joined(lo, i - 1) \o PayloadAt(i)

\* the space a physical record beginning at position i's offset has for its
\* payload in its block
SpaceAt(i) == BLOCK_SIZE - (layout[i].from % BLOCK_SIZE) - HEADER_SIZE

\* C31: each add_record(payload) has emitted, as the bytes of the stream
\* show, a single Full physical record exactly when the payload fits in the
\* space left in the block after the header, and otherwise a First, then
\* Middles, then a Last; each fragment is as long as the smaller of the
\* space its block has after the header and the payload still to write, and
\* the fragment payloads put together are the payload.
C31_FragmentTyping ==
    phase = "write" =>
        \A r \in 1..Len(written) :
            /\ FragsOf(r) # {}
            /\ LET lo == SetMin(FragsOf(r))
                   hi == SetMax(FragsOf(r))
               IN  /\ FragsOf(r) = lo..hi
                   /\ (lo = hi) = (Len(written[r]) <= SpaceAt(lo))
                   /\ \A i \in lo..hi :
                         /\ TypeAt(i) = IF lo = hi THEN RT_Full
                                        ELSE IF i = lo THEN RT_First
                                        ELSE IF i = hi THEN RT_Last
                                        ELSE RT_Middle
                         /\ LengthAt(i) = Min(SpaceAt(i),
                                              Len(written[r]) - Len(Joined(lo, i - 1)))
                         /\ layout[i].to = layout[i].from + HEADER_SIZE + LengthAt(i)
                   /\ Joined(lo, hi) = written[r]

\* the stream holds a record written as one Full and a record written as
\* First, Middle, Last
C31_Witness ==
    /\ phase = "write"
    /\ \E r \in 1..Len(written) :
          /\ Cardinality(FragsOf(r)) = 1
          /\ TypeAt(SetMin(FragsOf(r))) = RT_Full
          /\ Len(written[r]) > 0
    /\ \E r \in 1..Len(written) :
          /\ Cardinality(FragsOf(r)) >= 3
          /\ TypeAt(SetMin(FragsOf(r))) = RT_First
          /\ TypeAt(SetMin(FragsOf(r)) + 1) = RT_Middle
          /\ TypeAt(SetMax(FragsOf(r))) = RT_Last
          /\ Joined(SetMin(FragsOf(r)), SetMax(FragsOf(r))) = written[r]

\* the physical records of type t emitted for logical record r
CountOf(r, t) == Cardinality({i \in FragsOf(r) : TypeAt(i) = t})

\* n / d rounded up
CeilDiv(n, d) == (n + d - 1) \div d

\* C32 as stated: a record of BLOCK_SIZE * k + r bytes (k >= 1,
\* 0 < r < BLOCK_SIZE) is written as one First, k - 1 Middle and one Last.
C32_AsStated ==
    phase = "write" =>
        \A r \in 1..Len(written) :
            LET n == Len(written[r])
            IN  n >= BLOCK_SIZE /\ n % BLOCK_SIZE # 0
                => /\ CountOf(r, RT_First) = 1
                   /\ CountOf(r, RT_Middle) = (n \div BLOCK_SIZE) - 1
                   /\ CountOf(r, RT_Last) = 1

\* C32: a record of n bytes that does not fit in the space a which the
\* block it begins in has after the header is written as one First, one
\* Last and, between them, one Middle for each further block the remaining
\* n - a bytes fill: ceil((n - a) / (BLOCK_SIZE - HEADER_SIZE)) - 1 of them.
C32_FragmentCount ==
    phase = "write" =>
        \A r \in 1..Len(written) :
            LET n == Len(written[r])
                a == SpaceAt(SetMin(FragsOf(r)))
            IN  n > a
                => /\ CountOf(r, RT_First) = 1
                   /\ CountOf(r, RT_Middle)
                         = CeilDiv(n - a, BLOCK_SIZE - HEADER_SIZE) - 1
                   /\ CountOf(r, RT_Last) = 1
                   /\ CountOf(r, RT_Full) = 0

\* a record of one byte less than two blocks, begun at the start of a block,
\* is written as First, Middle, Last, and a record of two blocks and 8 bytes
\* begun after it likewise
C32_Witness ==
    /\ phase = "write"
    /\ \E r \in 1..Len(written) :
          /\ Len(written[r]) = 2 * BLOCK_SIZE - 1
          /\ layout[SetMin(FragsOf(r))].from % BLOCK_SIZE = 0
          /\ CountOf(r, RT_First) = 1 /\ CountOf(r, RT_Middle) = 1 /\ CountOf(r, RT_Last) = 1
    /\ \E r \in 1..Len(written) :
          /\ Len(written[r]) = 2 * BLOCK_SIZE + 8
          /\ layout[SetMin(FragsOf(r))].from % BLOCK_SIZE # 0
          /\ CountOf(r, RT_First) = 1 /\ CountOf(r, RT_Middle) = 1 /\ CountOf(r, RT_Last) = 1

\* The table of the reassembly state machine, run over the physical records
\* of the stream from position i in state (in_frag, scratch):
\* [outs |-> the payloads returned, reps |-> the "partial record without
\* end" reports as <<bytes, reason>>].  With always = TRUE a Full or First
\* met in a fragmented record is reported whatever the scratch holds, with
\* always = FALSE only when the scratch is not empty.
RECURSIVE Reassembly(_, _, _, _)
Reassembly(i, in_frag, scratch, always) ==
    IF i > Len(layout) THEN [outs |-> <<>>, reps |-> <<>>]
    ELSE
    LET t    == TypeAt(i)
        data == PayloadAt(i)
        told == in_frag /\ (always \/ scratch # <<>>)
    IN  IF t = RT_Full
        THEN LET x == Reassembly(i + 1, FALSE, <<>>, always)
             IN  [outs |-> <<data>> \o x.outs,
                  reps |-> (IF told
                            THEN <<<<Len(scratch), "partial record without end(1)">>>>
                            ELSE <<>>) \o x.reps]
        ELSE IF t = RT_First
        THEN LET x == Reassembly(i + 1, TRUE, data, always)
             IN  [outs |-> x.outs,
                  reps |-> (IF told
                            THEN <<<<Len(scratch), "partial record without end(2)">>>>
                            ELSE <<>>) \o x.reps]
        ELSE IF t = RT_Middle
        THEN Reassembly(i + 1, in_frag, IF in_frag THEN scratch \o data ELSE scratch, always)
        ELSE IF in_frag
        THEN LET x == Reassembly(i + 1, FALSE, <<>>, always)
             IN  [outs |-> <<scratch \o data>> \o x.outs, reps |-> x.reps]
        ELSE Reassembly(i + 1, FALSE, <<>>, always)

IsPartialReport(d) ==
    d[2] \in {"partial record without end(1)", "partial record without end(2)"}

\* what the reader returned and what it reported as partial records agree
\* with the table
AgreesWith(x) ==
    /\ readOut = [k \in 1..Len(x.outs) |-> <<"rec", x.outs[k]>>] \o <<<<"end">>>>
    /\ SelectSeq(reader.drops, IsPartialReport) = x.reps

\* C33 as stated: a Full or a First met while a fragmented record is in
\* progress is always reported as a partial record without end.
C33_AsStated == phase = "done" => AgreesWith(Reassembly(1, FALSE, <<>>, TRUE))

\* C33: a reader that has read a stream of physical records to its end has
\* returned exactly the payloads of the Full records and the concatenated
\* payloads of each First, Middles, Last run; a Middle or Last outside such
\* a run gave no record; a Full met in a run was returned, and a First met in
\* a run restarted the scratch, each with the report "partial record without
\* end(1)" or "(2)" of the bytes of the scratch when the scratch was not
\* empty and with no such report when it was empty.
C33_Reassembly == phase = "done" => AgreesWith(Reassembly(1, FALSE, <<>>, FALSE))

\* the stream First, First, Last, Full of two bytes each has been read: the
\* second First was reported as cutting the first short, the record of the
\* second First and the Last was returned, then the Full
C33_Witness ==
    /\ phase = "done"
    /\ Len(layout) = 4
    /\ TypeAt(1) = RT_First /\ TypeAt(2) = RT_First /\ TypeAt(3) = RT_Last
    /\ TypeAt(4) = RT_Full
    /\ \A i \in 1..4 : LengthAt(i) = 2
    /\ readOut = << <<"rec", PayloadAt(2) \o PayloadAt(3)>>, <<"rec", PayloadAt(4)>>,
                    <<"end">> >>
    /\ reader.drops = << <<2, "partial record without end(2)">> >>

\* the offset of the file up to which the reader has consumed it
ReadPosition(r) == SatSub(r.end_of_buffer_offset, Buf_size(r))

\* C34: every corruption the reporter has received is of bytes that lie
\* between the reader's initial offset and the offset it has read up to;
\* and a reader of a file that is as written or is cut at any byte, in a
\* header or in a payload, reaches the end of the file with no corruption
\* reported.
C34_ReportDiscipline ==
    phase \in {"read", "done"} =>
        /\ \A i \in 1..Len(reader.drops) :
              reader.initial_offset + reader.drops[i][1] <= ReadPosition(reader)
        /\ damaged = -1 => reader.drops = <<>>

\* a reader started past the start of the file has reported a corruption of
\* a byte changed at or past its initial offset
C34_Witness ==
    /\ phase = "done"
    /\ reader.initial_offset > 0
    /\ damaged >= reader.initial_offset
    /\ reader.drops # <<>>

\* C35: the first read of a reader places it at the start of the block that
\* holds its initial offset, and at the start of the next block when the
\* offset is one of the last six bytes of that block.
C35_BlockSelection ==
    fnCall.fn = "skip_to_initial_block" =>
        LET o        == fnCall.arg
            in_block == o % BLOCK_SIZE
            start    == IF in_block >= BLOCK_SIZE - 6
                        THEN o - in_block + BLOCK_SIZE
                        ELSE o - in_block
        IN  /\ fnCall.out.end_of_buffer_offset = start
            /\ fnCall.out.srcpos = start

\* the record is cut inside the 4-byte length at offset o
LengthCut(src, o) == SatSub(Len(src), o) < 4

\* the record holds the length at offset o and less than the bytes it counts
PayloadCut(src, o) ==
    /\ ~LengthCut(src, o)
    /\ SatSub(Len(src), o + 4)
           < src[o + 1] * 16777216 + src[o + 2] * 65536 + src[o + 3] * 256 + src[o + 4]

\* C36: decode_entry rejects an empty record, a record with an unknown tag
\* byte, a record cut inside a length and a record cut inside a field with
\* four different errors; an unknown tag byte is rejected as an unknown tag
\* whatever follows it.
C36_DecoderErrors ==
    fnCall.fn = "decode_entry" =>
        LET src == fnCall.arg
            out == fnCall.out
        IN  /\ src = <<>> => ~out.ok /\ out.err = "empty WAL record"
            /\ src # <<>> /\ src[1] \notin {PUT_TAG, DELETE_TAG}
                   => ~out.ok /\ out.err = "unknown WAL tag"
            /\ src # <<>> /\ src[1] \in {PUT_TAG, DELETE_TAG} /\ LengthCut(src, 1)
                   => ~out.ok /\ out.err = "missing length"
            /\ src # <<>> /\ src[1] \in {PUT_TAG, DELETE_TAG} /\ PayloadCut(src, 1)
                   => ~out.ok /\ out.err = "payload truncated"

\* the elements a skip list iterates over
Iterated == SkipList_iter(skiplist)

\* every inserted element is iterated over, in non-decreasing key order
KeptAndSorted ==
    /\ Len(Iterated) = Len(skiplist.nodes)
    /\ \A i, j \in 1..Len(Iterated) :
           i < j => compare(Iterated[i].user_key, Iterated[j].user_key) # "Greater"

\* C37: elements whose keys compare equal are all kept, the iteration is in
\* non-decreasing key order, and elements with equal keys are iterated over
\* in the order in which they were inserted.
C37_DuplicateOrder ==
    /\ KeptAndSorted
    /\ \A i, j \in 1..Len(Iterated) :
           i < j /\ compare(Iterated[i].user_key, Iterated[j].user_key) = "Equal"
               => Iterated[i].sequence < Iterated[j].sequence

\* bit i of a 32-bit word, bit 0 the lowest
Bit32(x, i) == IF i < 16 THEN (x[2] \div (2 ^ i)) % 2 ELSE (x[1] \div (2 ^ (i - 16))) % 2

\* a < b on 32-bit words
Less32(a, b) == a[1] < b[1] \/ (a[1] = b[1] /\ a[2] < b[2])

\* C38: unmask(mask(x)) = x; mask(x) less the constant modulo 2^32 is x
\* rotated right by 15 bits (its bit i is bit i + 15 of x), and unmask(m) is
\* m less the constant modulo 2^32 rotated left by 15 bits.
C38_MaskRoundTrip ==
    /\ fnCall.fn = "mask" =>
           \A i \in 0..31 :
               Bit32(Sub32(fnCall.out, MASK_DELTA), i) = Bit32(fnCall.arg, (i + 15) % 32)
    /\ fnCall.fn = "unmask" =>
           /\ fnCall.out = fnCall.of
           /\ \A i \in 0..31 :
                  Bit32(fnCall.out, (i + 15) % 32) = Bit32(Sub32(fnCall.arg, MASK_DELTA), i)

\* a word whose low and high bits are set was masked, the addition wrapping
\* past 2^32, and has been unmasked
C38_Witness ==
    /\ fnCall.fn = "unmask"
    /\ Less32(fnCall.arg, MASK_DELTA)
    /\ fnCall.of[2] % 2 = 1
    /\ fnCall.of[1] >= 32768

\* C39: with a destination of at least required_space(n) bytes encode_var
\* returns required_space(n), having written that many bytes and no other,
\* and decode_var of those bytes returns (n, required_space(n)); with a
\* shorter destination encode_var returns 0.
C39_VarintRoundTrip ==
    /\ fnCall.fn = "encode_var" =>
           IF fnCall.len >= fnCall.space
           THEN /\ fnCall.out.written = fnCall.space
                /\ \A i \in (fnCall.space + 1)..fnCall.len :
                       fnCall.out.dest[i] = fnCall.fill
           ELSE fnCall.out.written = 0
    /\ fnCall.fn = "decode_var" =>
           fnCall.out = <<"Some", fnCall.of, fnCall.space>>

\* a number with bit 63 set was encoded into a buffer longer than its ten
\* bytes and decoded
C39_Witness ==
    /\ fnCall.fn = "decode_var"
    /\ fnCall.of[1] >= 32768
    /\ fnCall.space = 10
    /\ Len(fnCall.arg) > 10

====
